---- MODULE Spec2Model ----
(***************************************************************************)
(* Model of the cache / ingestion orchestration layer of backend/main.py:  *)
(* the load-state registry (INDEX_LOAD_STATUS), the derived-series status  *)
(* registries, the response cache (API_CACHE), the embedded store          *)
(* (local_db), the read/write guard (db_rwlock), the lazy loader           *)
(* (ensure_index_loaded), the explicit refresh (refresh_single_index) and  *)
(* the refresh webhooks.                                                   *)
(*                                                                         *)
(* Python dicts are functions whose DOMAIN is the set of keys stored.      *)
(* Strings that are searched for substrings (cache keys, index keys) are   *)
(* sequences of tokens whose concatenation is the Python string.           *)
(***************************************************************************)
EXTENDS Integers, Sequences, FiniteSets, TLC

\* ---------------------------------------------------------------- bounds

\* Number of loads / refreshes / index-prices loads that are started in one
\* run of the model (the code puts no bound on it).
MaxTasks == 2

\* Number of statements that raise, or of precompute / prewarm queries that
\* return no row, in one run of the model.
MaxFaults == 1

\* Number of distinct non-empty frames the warehouse returns (at most 3).
NumFrames == 1

\* Largest number of rows of a frame in the deduplication specification.
MaxRows == 3

\* Number of trading sessions of the ingestion specification; the job
\* runs on the last of them.
MaxDay == 3

\* Number of threads of the stand-alone lock specification SpecLock.
MaxThreads == 4

\* ---------------------------------------------------------- configuration

\* MARKET_INDICES: the model keeps the two priority indices and one other
\* index of the six configured ones.
MARKET_INDICES == {"stoxx50", "sp500", "ftse100"}

\* The key the single-index webhook accepts besides the configured indices.
INDEX_PRICES_KEY == "index_prices"

\* The periods _prewarm_sector_caches walks through, in its order (the model
\* keeps the first of the seven).
PREWARM_PERIODS == <<"max">>

CACHE_TTL == 1800

\* ------------------------------------------------------------ dict helpers

\* d.get(k, default)
Get(d, k, default) == IF k \in DOMAIN d THEN d[k] ELSE default

\* d[k] = v
Put(d, k, v) == [x \in (DOMAIN d) \cup {k} |-> IF x = k THEN v ELSE d[x]]

\* d restricted to the keys in S (del d[k] for every k not in S)
Restrict(d, S) == [x \in (DOMAIN d) \cap S |-> d[x]]

EmptyDict == [x \in {} |-> TRUE]

\* Python's `s in t` on strings: s occurs in t as a contiguous substring.
IsSubstring(s, t) ==
    \E i \in 0..(Len(t) - Len(s)) : SubSeq(t, i + 1, i + Len(s)) = s

\* ------------------------------------------------------------- cache keys

\* The token sequence of an index key or of "index_prices".
KeyStr(index_key) == <<index_key>>

\* f"summary_{index}"
SummaryKey(index) == <<"summary_">> \o KeyStr(index)

\* f"sector_table_{index_key}_{period_label}"
SectorTableKey(index_key, period_label) ==
    <<"sector_table_">> \o KeyStr(index_key) \o <<"_", period_label>>

\* f"industry_breakdown_{index}_{sector}_{period}" for one sector and period
IndustryBreakdownKey(index) ==
    <<"industry_breakdown_">> \o KeyStr(index) \o <<"_", "Technology", "_", "1y">>

\* f"rankings_{period}_{index}" for the default period
RankingsKey(index) == <<"rankings_", "1y", "_">> \o KeyStr(index)

\* f"sector_table_{','.join(sorted(index_list))}_{period}" for the request
\* indices=sp500,ftse100 and the default period
SectorTableMultiKey ==
    <<"sector_table_">> \o KeyStr("ftse100") \o <<",">> \o KeyStr("sp500")
        \o <<"_", "1y">>

\* f"data_{symbol}_{period}" for the default period
DataKey(symbol) == <<"data_", symbol, "_", "1y">>

\* "index_prices_summary"
IndexPricesSummaryKey == KeyStr(INDEX_PRICES_KEY) \o <<"_summary">>

\* ------------------------------------------------------------- warehouse

Row(s, d, v) == [symbol |-> s, trade_date |-> d, volume |-> v]

\* The non-empty frames a bulk fetch of a warehouse table may return, in
\* the order the model adds them: three rows two of which share
\* (symbol, trade_date); one row; two rows of one symbol.
WarehouseFrameSeq ==
    << <<Row("AAA", 1, 10), Row("AAA", 1, 20), Row("BBB", 1, 5)>>,
       <<Row("AAA", 1, 10)>>,
       <<Row("AAA", 1, 10), Row("AAA", 2, 30)>> >>

NonEmptyFrames ==
    {WarehouseFrameSeq[i] : i \in 1..NumFrames} 

\* What one bulk fetch may return: nothing, or one of the frames above.
WarehouseFrames == {<<>>} \cup NonEmptyFrames

Range(f) == {f[i] : i \in DOMAIN f}

\* duckdb_create_index_table.sql: one row per (symbol, trade_date), the
\* one with the highest volume.
CreateIndexTable(df) ==
    { r \in Range(df) :
        \A q \in Range(df) :
            (q.symbol = r.symbol /\ q.trade_date = r.trade_date)
                => q.volume <= r.volume }

\* A table that does not exist in local_db.
NoTable == {[symbol |-> "none", trade_date |-> 0, volume |-> 0]}

\* A view that does not exist in local_db.
NoView == {"none"}

\* -------------------------------------------------------------- registry

StatusRec(loaded, loading, row_count) ==
    [loaded |-> loaded, loading |-> loading, row_count |-> row_count]

\* INDEX_LOAD_STATUS.get(k, {}) read through .get("loaded") / .get("loading")
NoStatus == StatusRec(FALSE, FALSE, 0)

SeriesRec(ready, computing) == [ready |-> ready, computing |-> computing]

NoSeries == SeriesRec(FALSE, FALSE)

\* ----------------------------------------------------------------- tasks

\* A task is one run of ensure_index_loaded._bg_load ("lazy"), of
\* refresh_single_index ("refresh") or of _load_index_prices_from_bq
\* ("index_prices"). phase is the function it is executing, pc its place
\* there, rc the loader's return value, i the index
\* of the prewarm period, warmed the periods stored so far, data the
\* result of the prewarm query, out the outcome of the last write section.
\* reload is history, not program state: whether the dataset was Loaded
\* when this refresh began.
NoTask ==
    [kind |-> "none", key |-> "none", phase |-> "none", pc |-> "idle",
     rc |-> 0, i |-> 0, warmed |-> 0, data |-> {},
     out |-> "none", reload |-> FALSE]

TaskIds == 1..MaxTasks

\* Bound: the single-dataset loads that may be in flight when the keyless
\* webhook is called.
MaxInFlightAtCall == 0

\* preload_all_indices, phase 1 (the priority indices)
PHASE1 == {"stoxx50", "sp500"}

\* The order in which preload_all_indices creates its coroutines: phase 1,
\* then the remaining indices, then the index-level prices.
PreloadOrder == <<"stoxx50", "sp500", "ftse100", INDEX_PRICES_KEY>>

\* The slots of the startup preload: its own, then one per coroutine it
\* creates.
PreloadSlot == MaxTasks + 1

ChildSlot(k) ==
    PreloadSlot + (CHOOSE i \in 1..Len(PreloadOrder) : PreloadOrder[i] = k)

PreloadTaskIds == PreloadSlot..(PreloadSlot + Len(PreloadOrder))

\* The slots of one call of the keyless webhook: its own, then one per
\* refresh it creates.
WebhookSlot == PreloadSlot + Len(PreloadOrder) + 1

WebhookChildSlot(k) ==
    WebhookSlot + (CHOOSE i \in 1..Len(PreloadOrder) : PreloadOrder[i] = k)

WebhookTaskIds == WebhookSlot..(WebhookSlot + Len(PreloadOrder) - 1)

AllTaskIds == TaskIds \cup PreloadTaskIds \cup WebhookTaskIds

VARIABLES
    INDEX_LOAD_STATUS,       \* dict index_key -> {loaded, loading, row_count}
    SECTOR_SERIES_STATUS,    \* dict index_key -> {ready, computing}
    INDUSTRY_SERIES_STATUS,  \* dict index_key -> {ready, computing}
    STOCK_RETURNS_STATUS,    \* dict index_key -> {ready, computing}
    PREWARM_STATUS,          \* dict index_key -> {ready, computing}
    INDEX_PRICES_LOADED,     \* global flag
    INDEX_PRICES_ROW_COUNT,  \* global counter
    API_CACHE,               \* dict cache key -> (data, timestamp)
    ALL_SERIES_CACHE,        \* dict index_key -> series data
    local_db,                \* the tables and views of the embedded store
    db_rwlock,               \* the _RWLock instance guarding local_db
    tasks,                   \* the loads and refreshes in flight
    handler,                 \* the request the event loop is executing
    resp,                    \* what the last finished request returned
    now,                     \* time.time()
    lockpc,                  \* threads of the stand-alone lock specification
    faults,                  \* exceptions and empty query results injected so far
    ingest                   \* the ingestion job and the warehouse table it syncs

vars ==
    <<INDEX_LOAD_STATUS, SECTOR_SERIES_STATUS, INDUSTRY_SERIES_STATUS,
      STOCK_RETURNS_STATUS, PREWARM_STATUS, INDEX_PRICES_LOADED,
      INDEX_PRICES_ROW_COUNT, API_CACHE, ALL_SERIES_CACHE, local_db,
      db_rwlock, tasks, handler, resp, now, lockpc, faults, ingest>>

\* ------------------------------------------------------------- _RWLock

\* _RWLock.__init__: both threading.Lock objects unlocked, no readers.
\* A threading.Lock has no owner: any thread may release it.
RWLockInit == [locked |-> FALSE, readers_locked |-> FALSE, readers |-> 0]

\* read(), entry, first half: `with self._readers_lock: self._readers += 1`.
\* The thread now holds _readers_lock.
RWLock_read_count(L) ==
    [L EXCEPT !.readers_locked = TRUE, !.readers = @ + 1]

\* read(), entry, second half for the first reader: `self._lock.acquire()`
\* returns (it blocks while _lock is locked), then _readers_lock is released.
RWLock_read_first(L) ==
    [L EXCEPT !.locked = TRUE, !.readers_locked = FALSE]

\* read(), entry, second half for a later reader: _readers_lock is released.
RWLock_read_later(L) ==
    [L EXCEPT !.readers_locked = FALSE]

\* Variant of RWLock_read_exit: every leaving reader releases _lock, the
\* last one or not.
RWLock_read_exit_always_release(L) ==
    [L EXCEPT !.readers = @ - 1, !.locked = FALSE]

\* read(), exit: under _readers_lock, `_readers -= 1` and the last reader
\* releases _lock.
RWLock_read_exit(L) ==
    [L EXCEPT !.readers = @ - 1,
              !.locked = IF L.readers - 1 = 0 THEN FALSE ELSE @]

\* write(), entry: `self._lock.acquire()` returns.
RWLock_write_enter(L) ==
    [L EXCEPT !.locked = TRUE]

\* Variant of RWLock_write_exit: the write section is left without
\* `self._lock.release()`.
RWLock_write_exit_without_release(L) == L

\* write(), exit: `self._lock.release()`.
RWLock_write_exit(L) ==
    [L EXCEPT !.locked = FALSE]

\* --------------------------------------- threads using the lock (SpecLock)

Threads == 1..MaxThreads

LockOthersUnchanged ==
    UNCHANGED <<INDEX_LOAD_STATUS, SECTOR_SERIES_STATUS, INDUSTRY_SERIES_STATUS,
                STOCK_RETURNS_STATUS, PREWARM_STATUS, INDEX_PRICES_LOADED,
                INDEX_PRICES_ROW_COUNT, API_CACHE, ALL_SERIES_CACHE, local_db,
                tasks, handler, resp, now, faults, ingest>>

\* A thread calls read(): it takes _readers_lock and counts itself in.
ThreadReadCount(t) ==
    /\ lockpc[t] = "idle"
    /\ ~db_rwlock.readers_locked
    /\ LET L == RWLock_read_count(db_rwlock) IN
         IF L.readers = 1
           THEN /\ db_rwlock' = L
                /\ lockpc' = [lockpc EXCEPT ![t] = "read_first"]
           ELSE /\ db_rwlock' = RWLock_read_later(L)
                /\ lockpc' = [lockpc EXCEPT ![t] = "reading"]
    /\ LockOthersUnchanged

\* The first reader gets _lock and enters its read section.
ThreadReadFirst(t) ==
    /\ lockpc[t] = "read_first"
    /\ ~db_rwlock.locked
    /\ db_rwlock' = RWLock_read_first(db_rwlock)
    /\ lockpc' = [lockpc EXCEPT ![t] = "reading"]
    /\ LockOthersUnchanged

\* A reader leaves its read section.
ThreadReadExit(t) ==
    /\ lockpc[t] = "reading"
    /\ ~db_rwlock.readers_locked
    /\ db_rwlock' = RWLock_read_exit(db_rwlock)
    /\ lockpc' = [lockpc EXCEPT ![t] = "idle"]
    /\ LockOthersUnchanged

\* A thread calls write() and starts waiting for _lock.
ThreadWriteRequest(t) ==
    /\ lockpc[t] = "idle"
    /\ lockpc' = [lockpc EXCEPT ![t] = "write_wait"]
    /\ UNCHANGED db_rwlock
    /\ LockOthersUnchanged

\* The waiting writer gets _lock and enters its write section.
ThreadWriteEnter(t) ==
    /\ lockpc[t] = "write_wait"
    /\ ~db_rwlock.locked
    /\ db_rwlock' = RWLock_write_enter(db_rwlock)
    /\ lockpc' = [lockpc EXCEPT ![t] = "writing"]
    /\ LockOthersUnchanged

\* A writer leaves its write section.
ThreadWriteExit(t) ==
    /\ lockpc[t] = "writing"
    /\ db_rwlock' = RWLock_write_exit(db_rwlock)
    /\ lockpc' = [lockpc EXCEPT ![t] = "idle"]
    /\ LockOthersUnchanged

\* ------------------------------------------------------------- local_db

\* duckdb_create_latest_table.sql: per symbol the most recent row.
CreateLatestTable(T) ==
    { r \in T : \A q \in T : q.symbol = r.symbol => q.trade_date <= r.trade_date }

\* The store after `duckdb.connect(':memory:')`: no table, no view, the
\* connection open.  A
\* derived table (sector_series_k, industry_series_k, stock_returns_k) is
\* represented by the raw rows it was computed from.
LocalDbInit ==
    [prices              |-> [k \in MARKET_INDICES |-> NoTable],
     latest              |-> [k \in MARKET_INDICES |-> NoTable],
     sector_series       |-> [k \in MARKET_INDICES |-> NoTable],
     industry_series     |-> [k \in MARKET_INDICES |-> NoTable],
     stock_returns       |-> [k \in MARKET_INDICES |-> NoTable],
     view_prices         |-> NoView,
     view_latest         |-> NoView,
     index_prices        |-> NoTable,
     latest_index_prices |-> NoTable,
     closed              |-> FALSE]

\* The indices whose registry entry has loaded = true.
LoadedIndices(status) == {k \in DOMAIN status : status[k].loaded}

\* _rebuild_unified_view: returns at once when no index is loaded; otherwise
\* drops and recreates 'prices', then 'latest_prices', as the union over the
\* loaded indices.  CREATE VIEW raises when one of the tables it names does
\* not exist; the view dropped just before then stays dropped.
\* Result: [db, raised].
_rebuild_unified_view(db, status) ==
    LET loaded_indices == LoadedIndices(status) IN
    IF loaded_indices = {} THEN [db |-> db, raised |-> FALSE]
    ELSE IF \E k \in loaded_indices : db.prices[k] = NoTable
      THEN [db |-> [db EXCEPT !.view_prices = NoView], raised |-> TRUE]
    ELSE IF \E k \in loaded_indices : db.latest[k] = NoTable
      THEN [db |-> [db EXCEPT !.view_prices = loaded_indices,
                              !.view_latest = NoView],
            raised |-> TRUE]
    ELSE [db |-> [db EXCEPT !.view_prices = loaded_indices,
                            !.view_latest = loaded_indices],
          raised |-> FALSE]

\* The places where a statement of the loader's write section may raise.
LoadFailPoints == {"none", "create", "latest"}

\* Variant of LoadIndexWrite whose exception is not turned into a return
\* value of 0: the row count of the fetched frame is reported.
LoadIndexWrite_exception_not_zero(db, status, index_key, df, fail) ==
    LET T == CreateIndexTable(df) IN
    CASE fail = "create" ->
           [db |-> [db EXCEPT !.prices[index_key] = NoTable], rc |-> Cardinality(T)]
      [] fail = "latest" ->
           [db |-> [db EXCEPT !.prices[index_key] = T,
                              !.latest[index_key] = NoTable],
            rc |-> Cardinality(T)]
      [] OTHER ->
           [db |-> [db EXCEPT !.prices[index_key] = T,
                              !.latest[index_key] = CreateLatestTable(T)],
            rc |-> Cardinality(T)]

\* Variant of LoadIndexWrite: of the rows that share (symbol, trade_date)
\* the one that comes first in the frame is kept.
LoadIndexWrite_keeps_first_row(db, status, index_key, df, fail) ==
    LET T   == { df[i] : i \in { j \in DOMAIN df :
                     \A h \in 1..(j - 1) :
                         ~(df[h].symbol = df[j].symbol
                           /\ df[h].trade_date = df[j].trade_date) } }
        db1 == [db EXCEPT !.prices[index_key] = NoTable]
        db2 == [db EXCEPT !.prices[index_key] = T]
        db3 == [db2 EXCEPT !.latest[index_key] = NoTable]
        db4 == [db2 EXCEPT !.latest[index_key] = CreateLatestTable(T)]
        rv  == _rebuild_unified_view(db4, status)
    IN  CASE fail = "create" -> [db |-> db1, rc |-> 0]
          [] fail = "latest" -> [db |-> db3, rc |-> 0]
          [] OTHER ->
               IF rv.raised THEN [db |-> rv.db, rc |-> 0]
               ELSE [db |-> rv.db, rc |-> Cardinality(T)]

\* Variant of LoadIndexWrite: the rows are inserted into the table that is
\* there, and the count reported is that of all rows inserted so far.
LoadIndexWrite_counts_earlier_rows(db, status, index_key, df, fail) ==
    LET T   == CreateIndexTable(df)
        old == IF db.prices[index_key] = NoTable
                 THEN 0 ELSE Cardinality(db.prices[index_key])
        db1 == [db EXCEPT !.prices[index_key] = NoTable]
        db2 == [db EXCEPT !.prices[index_key] = T]
        db3 == [db2 EXCEPT !.latest[index_key] = NoTable]
        db4 == [db2 EXCEPT !.latest[index_key] = CreateLatestTable(T)]
        rv  == _rebuild_unified_view(db4, status)
    IN  CASE fail = "create" -> [db |-> db1, rc |-> 0]
          [] fail = "latest" -> [db |-> db3, rc |-> 0]
          [] OTHER ->
               IF rv.raised THEN [db |-> rv.db, rc |-> 0]
               ELSE [db |-> rv.db, rc |-> old + Cardinality(T)]

\* _load_index_from_bq, the block under db_rwlock.write(): drop and create
\* prices_k, drop and create latest_k, rebuild the views, count the rows.
\* fail names the statement that raises, if any: "create" (prices_k is
\* dropped, its CREATE raises), "latest" (latest_k is dropped, its CREATE
\* raises).  Result: [db, rc]; rc is 0 when the block raised.
LoadIndexWrite(db, status, index_key, df, fail) ==
    LET T   == CreateIndexTable(df)
        db1 == [db EXCEPT !.prices[index_key] = NoTable]
        db2 == [db EXCEPT !.prices[index_key] = T]
        db3 == [db2 EXCEPT !.latest[index_key] = NoTable]
        db4 == [db2 EXCEPT !.latest[index_key] = CreateLatestTable(T)]
        rv  == _rebuild_unified_view(db4, status)
    IN  CASE fail = "create" -> [db |-> db1, rc |-> 0]
          [] fail = "latest" -> [db |-> db3, rc |-> 0]
          [] OTHER ->
               IF rv.raised THEN [db |-> rv.db, rc |-> 0]
               ELSE [db |-> rv.db, rc |-> Cardinality(T)]

\* _load_index_prices_from_bq, the block under db_rwlock.write().
LoadIndexPricesWrite(db, df, fail) ==
    LET T == CreateIndexTable(df) IN
    CASE fail = "create" -> [db |-> [db EXCEPT !.index_prices = NoTable], rc |-> 0]
      [] fail = "latest" ->
           [db |-> [db EXCEPT !.index_prices = T, !.latest_index_prices = NoTable],
            rc |-> 0]
      [] OTHER ->
           [db |-> [db EXCEPT !.index_prices = T,
                              !.latest_index_prices = CreateLatestTable(T)],
            rc |-> Cardinality(T)]

\* _precompute_sector_series / _precompute_industry_series, the block under
\* db_rwlock.write(): DROP TABLE IF EXISTS, then CREATE TABLE AS, which
\* raises when prices_k does not exist (or fails for another reason: fail).
\* Result: [db, out].
SeriesWrite(db, field, index_key, fail) ==
    IF fail \/ db.prices[index_key] = NoTable
      THEN [db |-> [db EXCEPT ![field][index_key] = NoTable], out |-> "raised"]
      ELSE [db |-> [db EXCEPT ![field][index_key] = db.prices[index_key]],
            out |-> "ok"]

\* _precompute_stock_returns, the block under db_rwlock.write(): the period
\* queries, then the table is replaced only when some query returned rows.
\* outcome: "ok", "nodata" (all_dfs stays empty) or "raised".
StockReturnsWrite(db, index_key, outcome) ==
    IF outcome = "raised" \/ db.prices[index_key] = NoTable
      THEN [db |-> db, out |-> "raised"]
    ELSE IF outcome = "nodata"
      THEN [db |-> db, out |-> "nodata"]
      ELSE [db |-> [db EXCEPT !.stock_returns[index_key] = db.prices[index_key]],
            out |-> "ok"]

\* ------------------------------------------------------- response cache

\* Python's None, returned for a cache miss.
None == {Row("None", 0, 0)}

\* Python's truth value of a handler result: None and the empty list are
\* false.
Truthy(x) == x # None /\ x # {}

\* Variant of get_cached_response: an entry is still returned at exactly
\* timestamp + CACHE_TTL.
get_cached_response_ttl_inclusive(cache, cache_key, t) ==
    IF cache_key \in DOMAIN cache /\ t - cache[cache_key].timestamp <= CACHE_TTL
      THEN cache[cache_key].data
      ELSE None

\* get_cached_response(cache_key) read at time t
get_cached_response(cache, cache_key, t) ==
    IF cache_key \in DOMAIN cache /\ t - cache[cache_key].timestamp < CACHE_TTL
      THEN cache[cache_key].data
      ELSE None

\* set_cached_response(cache_key, data) executed at time t
set_cached_response(cache, cache_key, data, t) ==
    Put(cache, cache_key, [data |-> data, timestamp |-> t])

\* Variant of invalidate_index_cache: the whole cache is cleared.
invalidate_index_cache_clear_all(cache, index_key) == EmptyDict

\* Variant of invalidate_index_cache: only the key equal to index_key is
\* removed, not every key that contains it.
invalidate_index_cache_exact_key(cache, index_key) ==
    Restrict(cache, (DOMAIN cache) \ {KeyStr(index_key)})

\* invalidate_index_cache(index_key)
invalidate_index_cache(cache, index_key) ==
    LET keys_to_remove ==
            {k \in DOMAIN cache : IsSubstring(KeyStr(index_key), k)}
    IN  Restrict(cache, (DOMAIN cache) \ keys_to_remove)

\* ------------------------------------------------------ ensure_index_loaded

Loading == StatusRec(FALSE, TRUE, 0)

\* Variant of ensure_index_loaded without the `loading` test: a Loading
\* dataset is treated as Unloaded.
ensure_index_loaded_no_loading_test(status, index_key) ==
    IF Get(status, index_key, NoStatus).loaded
      THEN [ret |-> TRUE, status |-> status, submit |-> FALSE]
      ELSE [ret |-> FALSE, status |-> Put(status, index_key, Loading),
            submit |-> TRUE]

\* Variant of ensure_index_loaded that lets a handler read while the
\* dataset is Loading.
ensure_index_loaded_serve_loading(status, index_key) ==
    LET st == Get(status, index_key, NoStatus) IN
    IF st.loaded \/ st.loading
      THEN [ret |-> TRUE, status |-> status, submit |-> FALSE]
      ELSE [ret |-> FALSE, status |-> Put(status, index_key, Loading),
            submit |-> TRUE]

\* ensure_index_loaded(index_key) on the registry `status`: its return
\* value, the registry it leaves, and whether it submitted _bg_load.
ensure_index_loaded(status, index_key) ==
    LET st == Get(status, index_key, NoStatus) IN
    IF st.loaded
      THEN [ret |-> TRUE, status |-> status, submit |-> FALSE]
    ELSE IF st.loading
      THEN [ret |-> FALSE, status |-> status, submit |-> FALSE]
      ELSE [ret |-> FALSE, status |-> Put(status, index_key, Loading),
            submit |-> TRUE]

\* ------------------------------------------------------------ event loop

NoHandler == [name |-> "none", key |-> "none", pc |-> "idle"]

\* The event loop thread is not inside a request handler.
LoopFree == handler.pc = "idle"

NoResp ==
    [name |-> "none", key |-> "none", status |-> "none", ensured |-> FALSE,
     cached |-> FALSE, result |-> None]

Resp(name, key, status, ensured, cached, result) ==
    [name |-> name, key |-> key, status |-> status, ensured |-> ensured,
     cached |-> cached, result |-> result]

FreeSlots == {t \in TaskIds : tasks[t].pc = "idle"}

\* The slot a new task takes.
FreeSlot == CHOOSE t \in FreeSlots : \A u \in FreeSlots : t <= u

NewTask(kind, key, pc) ==
    [NoTask EXCEPT !.kind = kind, !.key = key, !.phase = "load", !.pc = pc]

\* GET /summary?index=...: get_summary up to the point where it asks for
\* read access.
GetSummary(index0) ==
    LET index == IF index0 \in MARKET_INDICES THEN index0 ELSE "sp500"
        e     == ensure_index_loaded(INDEX_LOAD_STATUS, index)
        cached == get_cached_response(API_CACHE, SummaryKey(index), now)
    IN
    /\ LoopFree
    /\ e.submit => FreeSlots # {}
    /\ INDEX_LOAD_STATUS' = e.status
    /\ tasks' = IF e.submit
                  THEN [tasks EXCEPT ![FreeSlot] = NewTask("lazy", index, "fetch")]
                  ELSE tasks
    /\ IF ~e.ret
         THEN /\ resp' = Resp("summary", index, "ok", FALSE, FALSE, {})
              /\ UNCHANGED <<handler, db_rwlock>>
         ELSE IF Truthy(cached)
           THEN /\ resp' = Resp("summary", index, "ok", TRUE, TRUE, cached)
                /\ UNCHANGED <<handler, db_rwlock>>
           ELSE /\ resp' = NoResp
                /\ handler' = [name |-> "summary", key |-> index, pc |-> "read_first"]
                /\ db_rwlock' = RWLock_read_count(db_rwlock)
    /\ UNCHANGED <<SECTOR_SERIES_STATUS, INDUSTRY_SERIES_STATUS,
                   STOCK_RETURNS_STATUS, PREWARM_STATUS, INDEX_PRICES_LOADED,
                   INDEX_PRICES_ROW_COUNT, API_CACHE, ALL_SERIES_CACHE,
                   local_db, now, lockpc, faults, ingest>>

\* get_rankings, `cached` being what the cache returned: the handler's
\* steps up to the point where it asks for read access.  The rankings of
\* a table are represented by the rows they are computed from, the empty
\* rankings {"selected": {"top": [], "bottom": []}} by {}.
RankingsFrom(index0, lookup) ==
    LET index == IF index0 \in MARKET_INDICES THEN index0 ELSE "sp500"
        e     == ensure_index_loaded(INDEX_LOAD_STATUS, index)
        cached == IF lookup
                    THEN get_cached_response(API_CACHE, RankingsKey(index), now)
                    ELSE None
    IN
    /\ LoopFree
    /\ e.submit => FreeSlots # {}
    /\ INDEX_LOAD_STATUS' = e.status
    /\ tasks' = IF e.submit
                  THEN [tasks EXCEPT ![FreeSlot] = NewTask("lazy", index, "fetch")]
                  ELSE tasks
    /\ IF ~e.ret
         THEN /\ resp' = Resp("rankings", index, "ok", FALSE, FALSE, {})
              /\ UNCHANGED <<handler, db_rwlock>>
         ELSE IF Truthy(cached)
           THEN /\ resp' = Resp("rankings", index, "ok", TRUE, TRUE, cached)
                /\ UNCHANGED <<handler, db_rwlock>>
           ELSE /\ resp' = NoResp
                /\ handler' = [name |-> "rankings", key |-> index, pc |-> "read_first"]
                /\ db_rwlock' = RWLock_read_count(db_rwlock)
    /\ UNCHANGED <<SECTOR_SERIES_STATUS, INDUSTRY_SERIES_STATUS,
                   STOCK_RETURNS_STATUS, PREWARM_STATUS, INDEX_PRICES_LOADED,
                   INDEX_PRICES_ROW_COUNT, API_CACHE, ALL_SERIES_CACHE,
                   local_db, now, lockpc, faults, ingest>>

\* Variant of GetRankings: the cache is not consulted.
GetRankings_cache_not_consulted(index0) == RankingsFrom(index0, FALSE)

\* GET /rankings?index=...
GetRankings(index0) == RankingsFrom(index0, TRUE)

\* _executor.submit(_bg_load) for index_key when submit holds: the load
\* takes the first free slot of tk.
SubmitLazy(tk, submit, index_key) ==
    LET free == {t \in TaskIds : tk[t].pc = "idle"} IN
    IF submit
      THEN [tk EXCEPT ![CHOOSE t \in free : \A u \in free : t <= u] =
                           NewTask("lazy", index_key, "fetch")]
      ELSE tk

\* The symbols requested from /data/{symbol}: one the warehouse frames
\* hold, one that is in no dataset.  Neither has a suffix, so
\* _guess_index_for_symbol gives "sp500" for both.
DataSymbols == {"AAA", "ZZZ"}

\* _find_symbol_table, the scan: the loaded indices whose table holds the
\* symbol.
SymbolTables(symbol) ==
    {k \in LoadedIndices(INDEX_LOAD_STATUS) :
        /\ local_db.prices[k] # NoTable
        /\ \E r \in local_db.prices[k] : r.symbol = symbol}

\* get_data, `cached` being what the cache returned.  The handler has no
\* await: it runs as one block on the event loop, here at a moment when no
\* writer holds the store.  _find_symbol_table scans the loaded indices
\* and, finding none, starts the lazy load of the guessed index; get_data
\* then stores [] and returns it.  SYMBOL_INDEX_MAP, which only saves the
\* scan, is left out.
GetDataFrom(symbol, cached) ==
    LET found == SymbolTables(symbol)
        table == CHOOSE k \in found : TRUE
        e     == ensure_index_loaded(INDEX_LOAD_STATUS, "sp500")
        result == {r \in local_db.prices[table] : r.symbol = symbol}
    IN
    /\ LoopFree
    /\ IF Truthy(cached)
         THEN /\ resp' = Resp("data", symbol, "ok", FALSE, TRUE, cached)
              /\ UNCHANGED <<INDEX_LOAD_STATUS, tasks, API_CACHE>>
         ELSE /\ ~db_rwlock.locked
              /\ IF found # {}
                   THEN /\ resp' = Resp("data", symbol, "ok", TRUE, FALSE, result)
                        /\ API_CACHE' = set_cached_response(API_CACHE, DataKey(symbol),
                                                            result, now)
                        /\ UNCHANGED <<INDEX_LOAD_STATUS, tasks>>
                   ELSE /\ e.submit => FreeSlots # {}
                        /\ INDEX_LOAD_STATUS' = e.status
                        /\ tasks' = SubmitLazy(tasks, e.submit, "sp500")
                        /\ resp' = Resp("data", symbol, "ok", TRUE, FALSE, {})
                        /\ API_CACHE' = set_cached_response(API_CACHE, DataKey(symbol),
                                                            {}, now)
    /\ UNCHANGED <<SECTOR_SERIES_STATUS, INDUSTRY_SERIES_STATUS,
                   STOCK_RETURNS_STATUS, PREWARM_STATUS, INDEX_PRICES_LOADED,
                   INDEX_PRICES_ROW_COUNT, ALL_SERIES_CACHE,
                   local_db, db_rwlock, handler, now, lockpc, faults, ingest>>

\* GET /data/{symbol}
GetData(symbol) ==
    GetDataFrom(symbol, get_cached_response(API_CACHE, DataKey(symbol), now))

\* The indices of the request /sector-comparison/table?indices=sp500,ftse100
MultiIndexList == <<"sp500", "ftse100">>

\* The rows of prices_{idx} as they appear in a multi-index result, under
\* their index.
IndexRows(idx, T) ==
    {[symbol |-> r.symbol, trade_date |-> r.trade_date, volume |-> r.volume,
      market_index |-> idx] : r \in T}

\* get_sector_comparison_table for indices=sp500,ftse100.  The handler has
\* no await: it runs as one block on the event loop, here at a moment when
\* no writer holds the store.  For every index of the list in turn,
\* ensure_index_loaded is called and the index is left out when it returns
\* False; the result is stored in the cache under the key of the whole
\* list.  A missing table raises and the handler returns [].
GetSectorComparisonTable ==
    LET cached == get_cached_response(API_CACHE, SectorTableMultiKey, now)
        e1     == ensure_index_loaded(INDEX_LOAD_STATUS, MultiIndexList[1])
        e2     == ensure_index_loaded(e1.status, MultiIndexList[2])
        included == {MultiIndexList[i] : i \in {j \in 1..2 : IF j = 1 THEN e1.ret ELSE e2.ret}}
        submitted == {MultiIndexList[i] :
                        i \in {j \in 1..2 : IF j = 1 THEN e1.submit ELSE e2.submit}}
        raised == \E k \in included : local_db.prices[k] = NoTable
        result == UNION {IndexRows(k, local_db.prices[k]) : k \in included}
    IN
    /\ LoopFree
    /\ IF Truthy(cached)
         THEN /\ resp' = Resp("sector_table", "multi", "ok", TRUE, TRUE, cached)
              /\ UNCHANGED <<INDEX_LOAD_STATUS, tasks, API_CACHE>>
         ELSE /\ ~db_rwlock.locked
              /\ Cardinality(FreeSlots) >= Cardinality(submitted)
              /\ INDEX_LOAD_STATUS' = e2.status
              /\ tasks' = SubmitLazy(SubmitLazy(tasks, e1.submit, MultiIndexList[1]),
                                      e2.submit, MultiIndexList[2])
              /\ IF raised
                   THEN /\ resp' = Resp("sector_table", "multi", "ok", FALSE, FALSE, {})
                        /\ UNCHANGED API_CACHE
                   ELSE /\ resp' = Resp("sector_table", "multi", "ok", FALSE, FALSE, result)
                        /\ API_CACHE' = set_cached_response(API_CACHE, SectorTableMultiKey,
                                                            result, now)
    /\ UNCHANGED <<SECTOR_SERIES_STATUS, INDUSTRY_SERIES_STATUS,
                   STOCK_RETURNS_STATUS, PREWARM_STATUS, INDEX_PRICES_LOADED,
                   INDEX_PRICES_ROW_COUNT, ALL_SERIES_CACHE,
                   local_db, db_rwlock, handler, now, lockpc, faults, ingest>>

\* GET /sector-comparison/industry-breakdown?index=...&sector=Technology up
\* to the point where it asks for read access: the cache is consulted
\* before ensure_index_loaded.
GetIndustryBreakdown(index) ==
    LET e      == ensure_index_loaded(INDEX_LOAD_STATUS, index)
        cached == get_cached_response(API_CACHE, IndustryBreakdownKey(index), now)
    IN
    /\ LoopFree
    /\ IF index \notin MARKET_INDICES
         THEN /\ resp' = Resp("industry_breakdown", index, "ok", FALSE, FALSE, {})
              /\ UNCHANGED <<INDEX_LOAD_STATUS, tasks, handler, db_rwlock>>
         ELSE IF Truthy(cached)
           THEN /\ resp' = Resp("industry_breakdown", index, "ok", FALSE, TRUE,
                                cached)
                /\ UNCHANGED <<INDEX_LOAD_STATUS, tasks, handler, db_rwlock>>
           ELSE /\ e.submit => FreeSlots # {}
                /\ INDEX_LOAD_STATUS' = e.status
                /\ tasks' = IF e.submit
                              THEN [tasks EXCEPT ![FreeSlot] =
                                       NewTask("lazy", index, "fetch")]
                              ELSE tasks
                /\ IF ~e.ret
                     THEN /\ resp' = Resp("industry_breakdown", index, "ok",
                                          FALSE, FALSE, {})
                          /\ UNCHANGED <<handler, db_rwlock>>
                     ELSE /\ resp' = NoResp
                          /\ handler' = [name |-> "industry_breakdown",
                                         key |-> index, pc |-> "read_first"]
                          /\ db_rwlock' = RWLock_read_count(db_rwlock)
    /\ UNCHANGED <<SECTOR_SERIES_STATUS, INDUSTRY_SERIES_STATUS,
                   STOCK_RETURNS_STATUS, PREWARM_STATUS, INDEX_PRICES_LOADED,
                   INDEX_PRICES_ROW_COUNT, API_CACHE, ALL_SERIES_CACHE,
                   local_db, now, lockpc, faults, ingest>>

\* GET /index-prices/summary up to the point where it asks for read access.
GetIndexPricesSummary ==
    LET cached == get_cached_response(API_CACHE, IndexPricesSummaryKey, now) IN
    /\ LoopFree
    /\ IF ~INDEX_PRICES_LOADED
         THEN /\ resp' = Resp("index_prices_summary", INDEX_PRICES_KEY, "ok",
                              FALSE, FALSE, {})
              /\ UNCHANGED <<handler, db_rwlock>>
         ELSE IF Truthy(cached)
           THEN /\ resp' = Resp("index_prices_summary", INDEX_PRICES_KEY, "ok",
                                TRUE, TRUE, cached)
                /\ UNCHANGED <<handler, db_rwlock>>
           ELSE /\ resp' = NoResp
                /\ handler' = [name |-> "index_prices_summary",
                               key |-> INDEX_PRICES_KEY, pc |-> "read_first"]
                /\ db_rwlock' = RWLock_read_count(db_rwlock)
    /\ UNCHANGED <<INDEX_LOAD_STATUS, SECTOR_SERIES_STATUS, INDUSTRY_SERIES_STATUS,
                   STOCK_RETURNS_STATUS, PREWARM_STATUS, INDEX_PRICES_LOADED,
                   INDEX_PRICES_ROW_COUNT, API_CACHE, ALL_SERIES_CACHE,
                   local_db, tasks, now, lockpc, faults, ingest>>

\* The handler, first reader, gets _lock: `with db_rwlock.read():` is entered.
HandlerReadFirst ==
    /\ handler.pc = "read_first"
    /\ ~db_rwlock.locked
    /\ db_rwlock' = RWLock_read_first(db_rwlock)
    /\ handler' = [handler EXCEPT !.pc = "query"]
    /\ resp' = NoResp
    /\ UNCHANGED <<INDEX_LOAD_STATUS, SECTOR_SERIES_STATUS, INDUSTRY_SERIES_STATUS,
                   STOCK_RETURNS_STATUS, PREWARM_STATUS, INDEX_PRICES_LOADED,
                   INDEX_PRICES_ROW_COUNT, API_CACHE, ALL_SERIES_CACHE,
                   local_db, tasks, now, lockpc, faults, ingest>>

\* The table a handler's query reads: summary.sql reads latest_{index},
\* industry_breakdown_*.sql and rankings_period.sql read prices_{index},
\* index_prices_summary.sql reads latest_index_prices.
QueriedTable(db, name, key) ==
    CASE name = "summary"            -> db.latest[key]
      [] name = "industry_breakdown" -> db.prices[key]
      [] name = "rankings"           -> db.prices[key]
      [] OTHER                       -> db.latest_index_prices

HandlerCacheKey(name, key) ==
    CASE name = "summary"            -> SummaryKey(key)
      [] name = "industry_breakdown" -> IndustryBreakdownKey(key)
      [] name = "rankings"           -> RankingsKey(key)
      [] OTHER                       -> IndexPricesSummaryKey

\* The handler runs its query, leaves the read section, stores the result
\* in the cache and returns it; a query on a missing table raises and the
\* handler returns [].
HandlerQuery ==
    LET T == QueriedTable(local_db, handler.name, handler.key) IN
    /\ handler.pc = "query"
    /\ db_rwlock' = RWLock_read_exit(db_rwlock)
    /\ handler' = NoHandler
    /\ IF T = NoTable
         THEN /\ resp' = Resp(handler.name, handler.key, "ok", TRUE, FALSE, {})
              /\ UNCHANGED API_CACHE
         ELSE /\ resp' = Resp(handler.name, handler.key, "ok", TRUE, FALSE, T)
              /\ API_CACHE' = set_cached_response(
                     API_CACHE, HandlerCacheKey(handler.name, handler.key), T, now)
    /\ UNCHANGED <<INDEX_LOAD_STATUS, SECTOR_SERIES_STATUS, INDUSTRY_SERIES_STATUS,
                   STOCK_RETURNS_STATUS, PREWARM_STATUS, INDEX_PRICES_LOADED,
                   INDEX_PRICES_ROW_COUNT, ALL_SERIES_CACHE,
                   local_db, tasks, now, lockpc, faults, ingest>>

\* POST /api/admin/refresh/{index_key}.  For "index_prices" the argument
\* loop.run_in_executor(None, _load_index_prices_from_bq) is evaluated
\* first, which submits the load and returns a Future; asyncio.create_task
\* then raises TypeError ("a coroutine was expected"), so the handler
\* raises with the load already submitted.
webhook_refresh_index(index_key) ==
    /\ LoopFree
    /\ IF index_key = INDEX_PRICES_KEY
         THEN /\ FreeSlots # {}
              /\ tasks' = [tasks EXCEPT ![FreeSlot] =
                              NewTask("index_prices", INDEX_PRICES_KEY, "fetch")]
              /\ resp' = Resp("webhook", index_key, "raised", FALSE, FALSE, None)
         ELSE IF index_key \notin MARKET_INDICES
           THEN /\ UNCHANGED tasks
                /\ resp' = Resp("webhook", index_key, "error", FALSE, FALSE, None)
           ELSE /\ FreeSlots # {}
                /\ tasks' = [tasks EXCEPT ![FreeSlot] =
                                NewTask("refresh", index_key, "start")]
                /\ resp' = Resp("webhook", index_key, "accepted", FALSE, FALSE, None)
    /\ UNCHANGED <<INDEX_LOAD_STATUS, SECTOR_SERIES_STATUS, INDUSTRY_SERIES_STATUS,
                   STOCK_RETURNS_STATUS, PREWARM_STATUS, INDEX_PRICES_LOADED,
                   INDEX_PRICES_ROW_COUNT, API_CACHE, ALL_SERIES_CACHE,
                   local_db, db_rwlock, handler, now, lockpc, faults, ingest>>

\* ------------------------------------------------------------ task steps

PrewarmRec(ready, computing, periods) ==
    [ready |-> ready, computing |-> computing, periods |-> periods]

\* A task that has run to its end; its slot is not used again.
DoneTask == [NoTask EXCEPT !.pc = "done"]

Finish(t) == [tasks EXCEPT ![t] = DoneTask]

Goto(t, phase, pc) == [tasks EXCEPT ![t].phase = phase, ![t].pc = pc]

\* An outcome other than the normal one may be chosen while the fault
\* budget lasts.
Inject(abnormal) ==
    /\ abnormal => faults < MaxFaults
    /\ faults' = IF abnormal THEN faults + 1 ELSE faults

\* refresh_single_index, from its first line to the submission of the
\* load to the executor: cache invalidation, reset of the derived
\* statuses, registry entry set to Loading.
RefreshStart(t) ==
    LET index_key == tasks[t].key IN
    /\ LoopFree
    /\ tasks[t].kind = "refresh" /\ tasks[t].phase = "load" /\ tasks[t].pc = "start"
    /\ API_CACHE' = invalidate_index_cache(API_CACHE, index_key)
    /\ ALL_SERIES_CACHE' =
            Restrict(ALL_SERIES_CACHE, (DOMAIN ALL_SERIES_CACHE) \ {index_key})
    /\ SECTOR_SERIES_STATUS' = Put(SECTOR_SERIES_STATUS, index_key, NoSeries)
    /\ INDUSTRY_SERIES_STATUS' = Put(INDUSTRY_SERIES_STATUS, index_key, NoSeries)
    /\ STOCK_RETURNS_STATUS' = Put(STOCK_RETURNS_STATUS, index_key, NoSeries)
    /\ PREWARM_STATUS' = Put(PREWARM_STATUS, index_key, PrewarmRec(FALSE, FALSE, 0))
    /\ INDEX_LOAD_STATUS' = Put(INDEX_LOAD_STATUS, index_key, Loading)
    /\ tasks' = [tasks EXCEPT ![t].pc = "fetch",
                              ![t].reload = Get(INDEX_LOAD_STATUS, index_key,
                                                NoStatus).loaded]
    /\ resp' = NoResp
    /\ UNCHANGED <<INDEX_PRICES_LOADED, INDEX_PRICES_ROW_COUNT, local_db,
                   db_rwlock, handler, now, lockpc, faults, ingest>>

\* Variant of LoadFetch: on an empty frame the loader drops the dataset's
\* raw table before it returns 0.
LoadFetch_empty_drops_table(t) ==
    /\ tasks[t].phase = "load" /\ tasks[t].pc = "fetch"
    /\ \/ /\ Inject(TRUE)
          /\ tasks' = [tasks EXCEPT ![t].rc = 0, ![t].pc = "end"]
          /\ UNCHANGED local_db
       \/ \E empty \in BOOLEAN :
            /\ Inject(FALSE)
            /\ tasks' = IF empty
                          THEN [tasks EXCEPT ![t].rc = 0, ![t].pc = "end"]
                          ELSE [tasks EXCEPT ![t].pc = "acq"]
            /\ local_db' = IF empty /\ tasks[t].key \in MARKET_INDICES
                              THEN [local_db EXCEPT !.prices[tasks[t].key] = NoTable]
                              ELSE local_db
    /\ resp' = NoResp
    /\ UNCHANGED <<INDEX_LOAD_STATUS, SECTOR_SERIES_STATUS, INDUSTRY_SERIES_STATUS,
                   STOCK_RETURNS_STATUS, PREWARM_STATUS, INDEX_PRICES_LOADED,
                   INDEX_PRICES_ROW_COUNT, API_CACHE, ALL_SERIES_CACHE,
                   db_rwlock, handler, now, lockpc, ingest>>

\* _load_index_from_bq / _load_index_prices_from_bq up to `if df.empty`:
\* the warehouse query raises, or returns a frame; an empty frame and an
\* exception both make the loader return 0.  Which non-empty frame was
\* fetched is local to the loader until its write section, and is drawn
\* there.
LoadFetch(t) ==
    /\ tasks[t].phase = "load" /\ tasks[t].pc = "fetch"
    /\ \/ /\ Inject(TRUE)
          /\ tasks' = [tasks EXCEPT ![t].rc = 0, ![t].pc = "end"]
       \/ \E empty \in BOOLEAN :
            /\ Inject(FALSE)
            /\ tasks' = IF empty
                          THEN [tasks EXCEPT ![t].rc = 0, ![t].pc = "end"]
                          ELSE [tasks EXCEPT ![t].pc = "acq"]
    /\ resp' = NoResp
    /\ UNCHANGED <<INDEX_LOAD_STATUS, SECTOR_SERIES_STATUS, INDUSTRY_SERIES_STATUS,
                   STOCK_RETURNS_STATUS, PREWARM_STATUS, INDEX_PRICES_LOADED,
                   INDEX_PRICES_ROW_COUNT, API_CACHE, ALL_SERIES_CACHE,
                   local_db, db_rwlock, handler, now, lockpc, ingest>>

\* `with db_rwlock.write():` is entered by a loader, a precompute or the
\* prewarm.
WriteAcquire(t) ==
    /\ tasks[t].pc = "acq"
    /\ ~db_rwlock.locked
    /\ db_rwlock' = RWLock_write_enter(db_rwlock)
    /\ tasks' = [tasks EXCEPT ![t].pc = "in"]
    /\ resp' = NoResp
    /\ UNCHANGED <<INDEX_LOAD_STATUS, SECTOR_SERIES_STATUS, INDUSTRY_SERIES_STATUS,
                   STOCK_RETURNS_STATUS, PREWARM_STATUS, INDEX_PRICES_LOADED,
                   INDEX_PRICES_ROW_COUNT, API_CACHE, ALL_SERIES_CACHE,
                   local_db, handler, now, lockpc, faults, ingest>>

\* _load_index_from_bq: the write section and its exit, the fetched frame
\* being one of frames; the loader's return value is kept in rc.
LoadWriteFrom(t, frames) ==
    /\ tasks[t].kind \in {"lazy", "refresh"}
    /\ tasks[t].phase = "load" /\ tasks[t].pc = "in"
    /\ \E fail \in LoadFailPoints, df \in frames :
         LET r == LoadIndexWrite(local_db, INDEX_LOAD_STATUS, tasks[t].key,
                                 df, fail)
         IN  /\ Inject(fail # "none")
             /\ local_db' = r.db
             /\ tasks' = [tasks EXCEPT ![t].rc = r.rc, ![t].pc = "end"]
    /\ db_rwlock' = RWLock_write_exit(db_rwlock)
    /\ resp' = NoResp
    /\ UNCHANGED <<INDEX_LOAD_STATUS, SECTOR_SERIES_STATUS, INDUSTRY_SERIES_STATUS,
                   STOCK_RETURNS_STATUS, PREWARM_STATUS, INDEX_PRICES_LOADED,
                   INDEX_PRICES_ROW_COUNT, API_CACHE, ALL_SERIES_CACHE,
                   handler, now, lockpc, ingest>>

\* The same, the fetched frame being one the warehouse returns.
LoadWrite(t) == LoadWriteFrom(t, NonEmptyFrames)

\* _load_index_prices_from_bq: the write section and its exit.
IndexPricesWrite(t) ==
    /\ tasks[t].kind = "index_prices"
    /\ tasks[t].phase = "load" /\ tasks[t].pc = "in"
    /\ \E fail \in LoadFailPoints, df \in NonEmptyFrames :
         LET r == LoadIndexPricesWrite(local_db, df, fail)
         IN  /\ Inject(fail # "none")
             /\ local_db' = r.db
             /\ tasks' = [tasks EXCEPT ![t].rc = r.rc, ![t].pc = "end"]
    /\ db_rwlock' = RWLock_write_exit(db_rwlock)
    /\ resp' = NoResp
    /\ UNCHANGED <<INDEX_LOAD_STATUS, SECTOR_SERIES_STATUS, INDUSTRY_SERIES_STATUS,
                   STOCK_RETURNS_STATUS, PREWARM_STATUS, INDEX_PRICES_LOADED,
                   INDEX_PRICES_ROW_COUNT, API_CACHE, ALL_SERIES_CACHE,
                   handler, now, lockpc, ingest>>

\* Variant of LoadedEntry: the entry is marked loaded whatever the row
\* count.
LoadedEntry_always_loaded(row_count) == StatusRec(TRUE, FALSE, row_count)

\* The registry entry a caller writes when the loader has returned
\* row_count.
LoadedEntry(row_count) == StatusRec(row_count > 0, FALSE, row_count)

\* Variant of LazySetStatus: after a load that returned 0 the registry
\* entry is not written.
LazySetStatus_failure_not_recorded(t) ==
    /\ tasks[t].kind = "lazy" /\ tasks[t].phase = "load" /\ tasks[t].pc = "end"
    /\ INDEX_LOAD_STATUS' =
            IF tasks[t].rc > 0
              THEN Put(INDEX_LOAD_STATUS, tasks[t].key, LoadedEntry(tasks[t].rc))
              ELSE INDEX_LOAD_STATUS
    /\ tasks' = IF tasks[t].rc > 0 THEN Goto(t, "sector", "begin") ELSE Finish(t)
    /\ resp' = NoResp
    /\ UNCHANGED <<SECTOR_SERIES_STATUS, INDUSTRY_SERIES_STATUS,
                   STOCK_RETURNS_STATUS, PREWARM_STATUS, INDEX_PRICES_LOADED,
                   INDEX_PRICES_ROW_COUNT, API_CACHE, ALL_SERIES_CACHE,
                   local_db, db_rwlock, handler, now, lockpc, faults, ingest>>

\* Variant of LazySetStatus: a load that returned 0 is run again.
LazySetStatus_retries(t) ==
    /\ tasks[t].kind = "lazy" /\ tasks[t].phase = "load" /\ tasks[t].pc = "end"
    /\ INDEX_LOAD_STATUS' =
            Put(INDEX_LOAD_STATUS, tasks[t].key,
                IF tasks[t].rc > 0 THEN LoadedEntry(tasks[t].rc) ELSE Loading)
    /\ tasks' = IF tasks[t].rc > 0 THEN Goto(t, "sector", "begin")
                                   ELSE Goto(t, "load", "fetch")
    /\ resp' = NoResp
    /\ UNCHANGED <<SECTOR_SERIES_STATUS, INDUSTRY_SERIES_STATUS,
                   STOCK_RETURNS_STATUS, PREWARM_STATUS, INDEX_PRICES_LOADED,
                   INDEX_PRICES_ROW_COUNT, API_CACHE, ALL_SERIES_CACHE,
                   local_db, db_rwlock, handler, now, lockpc, faults, ingest>>

\* Variant of LazySetStatus: the precomputations follow whatever the
\* loader returned.
LazySetStatus_unconditional(t) ==
    /\ tasks[t].kind = "lazy" /\ tasks[t].phase = "load" /\ tasks[t].pc = "end"
    /\ INDEX_LOAD_STATUS' =
            Put(INDEX_LOAD_STATUS, tasks[t].key, LoadedEntry(tasks[t].rc))
    /\ tasks' = Goto(t, "sector", "begin")
    /\ resp' = NoResp
    /\ UNCHANGED <<SECTOR_SERIES_STATUS, INDUSTRY_SERIES_STATUS,
                   STOCK_RETURNS_STATUS, PREWARM_STATUS, INDEX_PRICES_LOADED,
                   INDEX_PRICES_ROW_COUNT, API_CACHE, ALL_SERIES_CACHE,
                   local_db, db_rwlock, handler, now, lockpc, faults, ingest>>

\* ensure_index_loaded._bg_load after the loader returned: the registry
\* entry is written by the worker thread; the precomputations follow when
\* row_count > 0.
LazySetStatus(t) ==
    /\ tasks[t].kind = "lazy" /\ tasks[t].phase = "load" /\ tasks[t].pc = "end"
    /\ INDEX_LOAD_STATUS' =
            Put(INDEX_LOAD_STATUS, tasks[t].key, LoadedEntry(tasks[t].rc))
    /\ tasks' = IF tasks[t].rc > 0 THEN Goto(t, "sector", "begin") ELSE Finish(t)
    /\ resp' = NoResp
    /\ UNCHANGED <<SECTOR_SERIES_STATUS, INDUSTRY_SERIES_STATUS,
                   STOCK_RETURNS_STATUS, PREWARM_STATUS, INDEX_PRICES_LOADED,
                   INDEX_PRICES_ROW_COUNT, API_CACHE, ALL_SERIES_CACHE,
                   local_db, db_rwlock, handler, now, lockpc, faults, ingest>>

\* refresh_single_index after `await run_in_executor(_load_index_from_bq)`:
\* the registry entry is written on the event loop.
RefreshSetStatus(t) ==
    /\ LoopFree
    /\ tasks[t].kind = "refresh" /\ tasks[t].phase = "load" /\ tasks[t].pc = "end"
    /\ INDEX_LOAD_STATUS' =
            Put(INDEX_LOAD_STATUS, tasks[t].key, LoadedEntry(tasks[t].rc))
    /\ tasks' = IF tasks[t].rc > 0 THEN Goto(t, "sector", "begin")
                                   ELSE Goto(t, "final", "inv")
    /\ resp' = NoResp
    /\ UNCHANGED <<SECTOR_SERIES_STATUS, INDUSTRY_SERIES_STATUS,
                   STOCK_RETURNS_STATUS, PREWARM_STATUS, INDEX_PRICES_LOADED,
                   INDEX_PRICES_ROW_COUNT, API_CACHE, ALL_SERIES_CACHE,
                   local_db, db_rwlock, handler, now, lockpc, faults, ingest>>

\* _load_index_prices_from_bq after its write section: on success the
\* flags are set; the loader returns.
IndexPricesEnd(t) ==
    /\ tasks[t].kind = "index_prices" /\ tasks[t].phase = "load"
    /\ tasks[t].pc = "end"
    /\ IF tasks[t].rc > 0
         THEN /\ INDEX_PRICES_LOADED' = TRUE
              /\ INDEX_PRICES_ROW_COUNT' = tasks[t].rc
         ELSE UNCHANGED <<INDEX_PRICES_LOADED, INDEX_PRICES_ROW_COUNT>>
    /\ tasks' = Finish(t)
    /\ resp' = NoResp
    /\ UNCHANGED <<INDEX_LOAD_STATUS, SECTOR_SERIES_STATUS, INDUSTRY_SERIES_STATUS,
                   STOCK_RETURNS_STATUS, PREWARM_STATUS, API_CACHE,
                   ALL_SERIES_CACHE, local_db, db_rwlock, handler, now, lockpc, faults, ingest>>

\* --------------------------------------------------------- precomputation

SeriesPhases == {"sector", "industry", "returns"}

\* The order of the precomputations in _bg_load and refresh_single_index.
NextPhase(phase) ==
    CASE phase = "sector"   -> "industry"
      [] phase = "industry" -> "returns"
      [] phase = "returns"  -> "prewarm"
      [] OTHER              -> "final"

\* The status dicts after `<PHASE>_STATUS[index_key] = rec`.
SetPhaseStatus(phase, index_key, rec) ==
    /\ SECTOR_SERIES_STATUS' =
         IF phase = "sector" THEN Put(SECTOR_SERIES_STATUS, index_key, rec)
                             ELSE SECTOR_SERIES_STATUS
    /\ INDUSTRY_SERIES_STATUS' =
         IF phase = "industry" THEN Put(INDUSTRY_SERIES_STATUS, index_key, rec)
                               ELSE INDUSTRY_SERIES_STATUS
    /\ STOCK_RETURNS_STATUS' =
         IF phase = "returns" THEN Put(STOCK_RETURNS_STATUS, index_key, rec)
                              ELSE STOCK_RETURNS_STATUS

\* _precompute_sector_series, _precompute_industry_series and
\* _precompute_stock_returns, first statement: status {ready: False,
\* computing: True}.
PrecomputeBegin(t) ==
    /\ tasks[t].phase \in SeriesPhases /\ tasks[t].pc = "begin"
    /\ SetPhaseStatus(tasks[t].phase, tasks[t].key, SeriesRec(FALSE, TRUE))
    /\ tasks' = [tasks EXCEPT ![t].pc = "acq"]
    /\ resp' = NoResp
    /\ UNCHANGED <<INDEX_LOAD_STATUS, PREWARM_STATUS, INDEX_PRICES_LOADED,
                   INDEX_PRICES_ROW_COUNT, API_CACHE, ALL_SERIES_CACHE,
                   local_db, db_rwlock, handler, now, lockpc, faults, ingest>>

\* _precompute_sector_series / _precompute_industry_series: the write
\* section and its exit.  The sector variant also fills ALL_SERIES_CACHE.
SeriesWriteStep(t) ==
    LET phase == tasks[t].phase
        field == IF phase = "sector" THEN "sector_series" ELSE "industry_series"
    IN
    /\ phase \in {"sector", "industry"} /\ tasks[t].pc = "in"
    /\ \E fail \in BOOLEAN :
         LET r == SeriesWrite(local_db, field, tasks[t].key, fail) IN
         /\ Inject(fail)
         /\ local_db' = r.db
         /\ tasks' = [tasks EXCEPT ![t].out = r.out, ![t].pc = "end"]
         /\ ALL_SERIES_CACHE' =
              IF phase = "sector" /\ r.out = "ok"
                THEN Put(ALL_SERIES_CACHE, tasks[t].key, r.db.sector_series[tasks[t].key])
                ELSE ALL_SERIES_CACHE
    /\ db_rwlock' = RWLock_write_exit(db_rwlock)
    /\ resp' = NoResp
    /\ UNCHANGED <<INDEX_LOAD_STATUS, SECTOR_SERIES_STATUS, INDUSTRY_SERIES_STATUS,
                   STOCK_RETURNS_STATUS, PREWARM_STATUS, INDEX_PRICES_LOADED,
                   INDEX_PRICES_ROW_COUNT, API_CACHE, handler, now, lockpc, ingest>>

\* _precompute_stock_returns: the write section and its exit.
StockReturnsWriteStep(t) ==
    /\ tasks[t].phase = "returns" /\ tasks[t].pc = "in"
    /\ \E outcome \in {"ok", "nodata", "raised"} :
         LET r == StockReturnsWrite(local_db, tasks[t].key, outcome) IN
         /\ Inject(outcome # "ok")
         /\ local_db' = r.db
         /\ tasks' = [tasks EXCEPT ![t].out = r.out, ![t].pc = "end"]
    /\ db_rwlock' = RWLock_write_exit(db_rwlock)
    /\ resp' = NoResp
    /\ UNCHANGED <<INDEX_LOAD_STATUS, SECTOR_SERIES_STATUS, INDUSTRY_SERIES_STATUS,
                   STOCK_RETURNS_STATUS, PREWARM_STATUS, INDEX_PRICES_LOADED,
                   INDEX_PRICES_ROW_COUNT, API_CACHE, ALL_SERIES_CACHE,
                   handler, now, lockpc, ingest>>

\* Variant of PrecomputeResult: the except branch reports ready.
PrecomputeResult_always_ready(out) == SeriesRec(TRUE, FALSE)

\* The status a precompute function writes last: ready when its write
\* section succeeded, not ready otherwise (the except branch, or the
\* stock-returns "no data" branch).
PrecomputeResult(out) == SeriesRec(out = "ok", FALSE)

\* The last statement of a precompute function; the caller goes on to the
\* next precomputation.
PrecomputeEnd(t) ==
    /\ tasks[t].phase \in SeriesPhases /\ tasks[t].pc = "end"
    /\ SetPhaseStatus(tasks[t].phase, tasks[t].key, PrecomputeResult(tasks[t].out))
    /\ tasks' = [tasks EXCEPT ![t].phase = NextPhase(tasks[t].phase),
                              ![t].pc = "begin", ![t].out = "none"]
    /\ resp' = NoResp
    /\ UNCHANGED <<INDEX_LOAD_STATUS, PREWARM_STATUS, INDEX_PRICES_LOADED,
                   INDEX_PRICES_ROW_COUNT, API_CACHE, ALL_SERIES_CACHE,
                   local_db, db_rwlock, handler, now, lockpc, faults, ingest>>

\* _prewarm_sector_caches, first statements.
PrewarmBegin(t) ==
    /\ tasks[t].phase = "prewarm" /\ tasks[t].pc = "begin"
    /\ PREWARM_STATUS' = Put(PREWARM_STATUS, tasks[t].key, PrewarmRec(FALSE, TRUE, 0))
    /\ tasks' = [tasks EXCEPT ![t].pc = "acq", ![t].i = 1, ![t].warmed = 0]
    /\ resp' = NoResp
    /\ UNCHANGED <<INDEX_LOAD_STATUS, SECTOR_SERIES_STATUS, INDUSTRY_SERIES_STATUS,
                   STOCK_RETURNS_STATUS, INDEX_PRICES_LOADED,
                   INDEX_PRICES_ROW_COUNT, API_CACHE, ALL_SERIES_CACHE,
                   local_db, db_rwlock, handler, now, lockpc, faults, ingest>>

\* Where the prewarm loop goes after period i.
PrewarmAdvance(task) ==
    IF task.i = Len(PREWARM_PERIODS)
      THEN [task EXCEPT !.pc = "end", !.out = "ok", !.data = {}]
      ELSE [task EXCEPT !.pc = "acq", !.i = @ + 1, !.data = {}]

\* _prewarm_sector_caches, one period: _sector_returns_df under
\* db_rwlock.write().  The query raises when prices_k does not exist (or
\* for another reason), returns no row (`continue`), or returns rows.
PrewarmQuery(t) ==
    LET T == local_db.prices[tasks[t].key] IN
    /\ tasks[t].phase = "prewarm" /\ tasks[t].pc = "in"
    /\ \E outcome \in {"rows", "empty", "raised"} :
         /\ Inject(outcome # "rows")
         /\ tasks' = [tasks EXCEPT ![t] =
            IF outcome = "raised" \/ T = NoTable
              THEN [@ EXCEPT !.pc = "end", !.out = "raised"]
            ELSE IF outcome = "empty"
              THEN PrewarmAdvance(@)
              ELSE [@ EXCEPT !.pc = "store", !.data = T]]
    /\ db_rwlock' = RWLock_write_exit(db_rwlock)
    /\ resp' = NoResp
    /\ UNCHANGED <<INDEX_LOAD_STATUS, SECTOR_SERIES_STATUS, INDUSTRY_SERIES_STATUS,
                   STOCK_RETURNS_STATUS, PREWARM_STATUS, INDEX_PRICES_LOADED,
                   INDEX_PRICES_ROW_COUNT, API_CACHE, ALL_SERIES_CACHE,
                   local_db, handler, now, lockpc, ingest>>

\* _prewarm_sector_caches, one period: set_cached_response(cache_key, result).
PrewarmStore(t) ==
    /\ tasks[t].phase = "prewarm" /\ tasks[t].pc = "store"
    /\ API_CACHE' = set_cached_response(
            API_CACHE, SectorTableKey(tasks[t].key, PREWARM_PERIODS[tasks[t].i]),
            tasks[t].data, now)
    /\ tasks' = [tasks EXCEPT ![t] = PrewarmAdvance([@ EXCEPT !.warmed = @ + 1])]
    /\ resp' = NoResp
    /\ UNCHANGED <<INDEX_LOAD_STATUS, SECTOR_SERIES_STATUS, INDUSTRY_SERIES_STATUS,
                   STOCK_RETURNS_STATUS, PREWARM_STATUS, INDEX_PRICES_LOADED,
                   INDEX_PRICES_ROW_COUNT, ALL_SERIES_CACHE,
                   local_db, db_rwlock, handler, now, lockpc, faults, ingest>>

\* _prewarm_sector_caches, last statement; _bg_load ends here,
\* refresh_single_index goes on to its final invalidation.
PrewarmEnd(t) ==
    /\ tasks[t].phase = "prewarm" /\ tasks[t].pc = "end"
    /\ PREWARM_STATUS' =
         Put(PREWARM_STATUS, tasks[t].key,
             IF tasks[t].out = "ok" THEN PrewarmRec(TRUE, FALSE, tasks[t].warmed)
                                    ELSE PrewarmRec(FALSE, FALSE, 0))
    /\ tasks' = IF tasks[t].kind = "lazy"
                  THEN Finish(t)
                  ELSE [tasks EXCEPT ![t].phase = "final", ![t].pc = "inv",
                                     ![t].out = "none", ![t].i = 0,
                                     ![t].warmed = 0]
    /\ resp' = NoResp
    /\ UNCHANGED <<INDEX_LOAD_STATUS, SECTOR_SERIES_STATUS, INDUSTRY_SERIES_STATUS,
                   STOCK_RETURNS_STATUS, INDEX_PRICES_LOADED,
                   INDEX_PRICES_ROW_COUNT, API_CACHE, ALL_SERIES_CACHE,
                   local_db, db_rwlock, handler, now, lockpc, faults, ingest>>

\* refresh_single_index, last line: invalidate_index_cache(index_key).
RefreshFinish(t) ==
    /\ LoopFree
    /\ tasks[t].kind = "refresh" /\ tasks[t].phase = "final" /\ tasks[t].pc = "inv"
    /\ API_CACHE' = invalidate_index_cache(API_CACHE, tasks[t].key)
    /\ tasks' = Finish(t)
    /\ resp' = NoResp
    /\ UNCHANGED <<INDEX_LOAD_STATUS, SECTOR_SERIES_STATUS, INDUSTRY_SERIES_STATUS,
                   STOCK_RETURNS_STATUS, PREWARM_STATUS, INDEX_PRICES_LOADED,
                   INDEX_PRICES_ROW_COUNT, ALL_SERIES_CACHE,
                   local_db, db_rwlock, handler, now, lockpc, faults, ingest>>

\* -------------------------------------------------------------- ingestion

\* The sessions of the exchange calendar: every day from 1 to MaxDay is a
\* session, and the job's effective date is the last one.
Sessions == 1..MaxDay

IngestSymbols == {"AAA", "BBB"}

\* The columns that identify a row of a warehouse table.
PriceKey(s, d) == [symbol |-> s, trade_date |-> d]

AllPriceKeys == {PriceKey(s, d) : s \in IngestSymbols, d \in Sessions}

SetMin(S) == CHOOSE x \in S : \A y \in S : x <= y

SetMax(S) == CHOOSE x \in S : \A y \in S : y <= x

\* The gap scan looks back 16 days.
LOOKBACK_DAYS == 16

\* get_db_state_detailed: tickers = list(name_map.keys())
Tickers(table) == {r.symbol : r \in table}

\* get_db_state_detailed: symbol_last_dates[sym] = MAX(trade_date)
SymbolLastDate(table, sym) == SetMax({r.trade_date : r \in {q \in table : q.symbol = sym}})

\* get_db_state_detailed: lookback_start
LookbackStart(today) ==
    IF today - LOOKBACK_DAYS < 1 THEN 1 ELSE today - LOOKBACK_DAYS

\* get_db_state_detailed: symbol_missing_dates[sym], the expected sessions
\* of the lookback window for which the table has no row of sym.
SymbolMissingDates(table, sym, today) ==
    {d \in LookbackStart(today)..today : PriceKey(sym, d) \notin table}

\* sync_index: trailing_behind
TrailingBehind(table, today) ==
    {sym \in Tickers(table) : SymbolLastDate(table, sym) < today}

\* sync_index: all_gap_symbols
AllGapSymbols(table, today) ==
    {sym \in Tickers(table) : SymbolMissingDates(table, sym, today) # {}}
        \cup TrailingBehind(table, today)

\* sync_index: earliest_needed
EarliestNeeded(table, today) ==
    SetMin({today}
           \cup {SymbolLastDate(table, sym) + 1 : sym \in TrailingBehind(table, today)}
           \cup UNION {SymbolMissingDates(table, sym, today) : sym \in Tickers(table)})

\* sync_index: symbol_effective_start[sym] for a gap symbol.
SymbolEffectiveStart(table, sym, today) ==
    IF SymbolMissingDates(table, sym, today) # {}
      THEN SetMin(SymbolMissingDates(table, sym, today)) - 1
    ELSE IF sym \in TrailingBehind(table, today)
      THEN SymbolLastDate(table, sym)
      ELSE today

\* What a download for the gap symbols from earliest_needed to today may
\* contain.
Downloadable(table, today) ==
    {PriceKey(sym, d) : sym \in AllGapSymbols(table, today),
                        d \in EarliestNeeded(table, today)..today}

\* _extract_records: of the downloaded rows, those whose date is after the
\* symbol's effective start.
ExtractRecords(table, today, data) ==
    {r \in data : r.trade_date > SymbolEffectiveStart(table, r.symbol, today)}

\* The ingestion job: pc is the place of sync_stocks, table the warehouse
\* table of the index it syncs, records the rows the last sync_index
\* appended, count what it returned, idx_bound whether the local idx_count
\* has been assigned, api_url whether BACKEND_API_URL is set, result what
\* sync_stocks returned.
NoIngest ==
    [pc |-> "idle", table |-> {}, records |-> {}, count |-> 0,
     idx_bound |-> FALSE, idx_count |-> 0, api_url |-> FALSE,
     result |-> "none"]

IngestOthersUnchanged ==
    UNCHANGED <<INDEX_LOAD_STATUS, SECTOR_SERIES_STATUS, INDUSTRY_SERIES_STATUS,
                STOCK_RETURNS_STATUS, PREWARM_STATUS, INDEX_PRICES_LOADED,
                INDEX_PRICES_ROW_COUNT, API_CACHE, ALL_SERIES_CACHE, local_db,
                db_rwlock, tasks, handler, resp, now, lockpc, faults>>

\* sync_stocks, the loop over the indices (one index in the model):
\* sync_index appends the extracted records with WRITE_APPEND and returns
\* their number; it returns 0 when there is nothing to fetch, when the
\* download is empty or when the load job fails.
SyncIndex ==
    /\ ingest.pc = "start"
    /\ \E data \in SUBSET Downloadable(ingest.table, MaxDay), load_fails \in BOOLEAN :
         LET records == ExtractRecords(ingest.table, MaxDay, data)
             written == IF load_fails \/ Tickers(ingest.table) = {}
                          THEN {} ELSE records
         IN  ingest' = [ingest EXCEPT !.pc = "index_prices",
                                      !.records = written,
                                      !.count = Cardinality(written)]
    /\ IngestOthersUnchanged

\* sync_stocks, the call of sync_index_prices: it returns a count, or it
\* raises and idx_count stays unassigned.
SyncIndexPrices ==
    /\ ingest.pc = "index_prices"
    /\ \E outcome \in {"none", "rows", "raised"} :
         ingest' = [ingest EXCEPT !.pc = "notify",
                                  !.idx_bound = (outcome # "raised"),
                                  !.idx_count = IF outcome = "rows" THEN 1 ELSE 0]
    /\ IngestOthersUnchanged

\* sync_stocks, the webhook notifications and the return: the posts catch
\* their exceptions; `if idx_count > 0` reads the local idx_count.
SyncNotify ==
    /\ ingest.pc = "notify"
    /\ ingest' = IF ingest.api_url /\ ~ingest.idx_bound
                   THEN [ingest EXCEPT !.pc = "done", !.result = "raised"]
                   ELSE [ingest EXCEPT !.pc = "done", !.result = "200"]
    /\ IngestOthersUnchanged

\* The job is invoked on a warehouse table with any subset of the rows,
\* with or without BACKEND_API_URL.
InitIngest ==
    /\ INDEX_LOAD_STATUS = EmptyDict
    /\ SECTOR_SERIES_STATUS = EmptyDict
    /\ INDUSTRY_SERIES_STATUS = EmptyDict
    /\ STOCK_RETURNS_STATUS = EmptyDict
    /\ PREWARM_STATUS = EmptyDict
    /\ INDEX_PRICES_LOADED = FALSE
    /\ INDEX_PRICES_ROW_COUNT = 0
    /\ API_CACHE = EmptyDict
    /\ ALL_SERIES_CACHE = EmptyDict
    /\ local_db = LocalDbInit
    /\ db_rwlock = RWLockInit
    /\ tasks = [t \in AllTaskIds |-> NoTask]
    /\ handler = NoHandler
    /\ resp = NoResp
    /\ now = 0
    /\ lockpc = [t \in Threads |-> "idle"]
    /\ faults = 0
    /\ \E T \in SUBSET AllPriceKeys, u \in BOOLEAN :
         ingest = [NoIngest EXCEPT !.pc = "start", !.table = T, !.api_url = u]

IngestNext ==
    \/ SyncIndex
    \/ SyncIndexPrices
    \/ SyncNotify

SpecIngest == InitIngest /\ [][IngestNext]_vars

\* ------------------------------------------------------- specifications

Init ==
    /\ INDEX_LOAD_STATUS = EmptyDict
    /\ SECTOR_SERIES_STATUS = EmptyDict
    /\ INDUSTRY_SERIES_STATUS = EmptyDict
    /\ STOCK_RETURNS_STATUS = EmptyDict
    /\ PREWARM_STATUS = EmptyDict
    /\ INDEX_PRICES_LOADED = FALSE
    /\ INDEX_PRICES_ROW_COUNT = 0
    /\ API_CACHE = EmptyDict
    /\ ALL_SERIES_CACHE = EmptyDict
    /\ local_db = LocalDbInit
    /\ db_rwlock = RWLockInit
    /\ tasks = [t \in AllTaskIds |-> NoTask]
    /\ handler = NoHandler
    /\ resp = NoResp
    /\ now = 0
    /\ lockpc = [t \in Threads |-> "idle"]
    /\ faults = 0
    /\ ingest = NoIngest

\* A step of a refresh, or a step a lazy load shares with it.
RefreshTaskStep(t) ==
    \/ RefreshStart(t)
    \/ LoadFetch(t)
    \/ WriteAcquire(t)
    \/ LoadWrite(t)
    \/ RefreshSetStatus(t)
    \/ PrecomputeBegin(t)
    \/ SeriesWriteStep(t)
    \/ StockReturnsWriteStep(t)
    \/ PrecomputeEnd(t)
    \/ PrewarmBegin(t)
    \/ PrewarmQuery(t)
    \/ PrewarmStore(t)
    \/ PrewarmEnd(t)
    \/ RefreshFinish(t)

\* A step of a load, a refresh or an index-prices load in flight.
TaskStep(t) ==
    \/ LazySetStatus(t)
    \/ RefreshTaskStep(t)

\* The indices that requests and webhooks name.
RequestedIndices == {"sp500", "ftse100"}

\* The per-index datasets: lazy loads through get_summary, refreshes
\* through the single-index webhook.
Next ==
    \/ \E k \in RequestedIndices \cup {"bogus"} : GetSummary(k)
    \/ HandlerReadFirst
    \/ HandlerQuery
    \/ \E k \in RequestedIndices \cup {"bogus"} : webhook_refresh_index(k)
    \/ \E t \in TaskIds : TaskStep(t)

Spec == Init /\ [][Next]_vars

\* The index-level prices dataset, beside one per-index dataset.
IndexPricesNext ==
    \/ GetSummary("sp500")
    \/ GetIndexPricesSummary
    \/ HandlerReadFirst
    \/ HandlerQuery
    \/ \E k \in {"sp500", INDEX_PRICES_KEY} : webhook_refresh_index(k)
    \/ \E t \in TaskIds :
         \/ TaskStep(t)
         \/ IndexPricesWrite(t)
         \/ IndexPricesEnd(t)

SpecIndexPrices == Init /\ [][IndexPricesNext]_vars

LockNext ==
    \E t \in Threads :
        \/ ThreadReadCount(t)
        \/ ThreadReadFirst(t)
        \/ ThreadReadExit(t)
        \/ ThreadWriteRequest(t)
        \/ ThreadWriteEnter(t)
        \/ ThreadWriteExit(t)

SpecLock == Init /\ [][LockNext]_vars

\* ================================================================ claims

\* Task t is executing _load_index_from_bq.
InLoader(t) ==
    /\ tasks[t].kind \in {"lazy", "refresh"}
    /\ tasks[t].phase = "load"
    /\ tasks[t].pc \in {"fetch", "acq", "in"}

Status(k) == Get(INDEX_LOAD_STATUS, k, NoStatus)

\* C1: for each index dataset at most one invocation of
\* _load_index_from_bq is in flight at any time.
C1_OneLoadInFlight ==
    \A t, u \in TaskIds :
        (InLoader(t) /\ InLoader(u) /\ tasks[t].key = tasks[u].key) => t = u

\* C2: a write section of _RWLock is never active together with a read
\* section or with another write section.
C2_WriteExcludesAll ==
    \A t, u \in Threads :
        (t # u /\ lockpc[t] = "writing") => lockpc[u] \notin {"writing", "reading"}

\* C2 witness: two read sections are active together while a writer waits.
C2_Witness ==
    \E t, u, w \in Threads :
        /\ t # u
        /\ lockpc[t] = "reading" /\ lockpc[u] = "reading"
        /\ lockpc[w] = "write_wait"

\* C3: a dataset whose sector series, industry series or stock returns
\* status is ready has a registry entry with loaded = true.
C3_ReadyImpliesLoaded ==
    \A k \in MARKET_INDICES :
        ( \/ Get(SECTOR_SERIES_STATUS, k, NoSeries).ready
          \/ Get(INDUSTRY_SERIES_STATUS, k, NoSeries).ready
          \/ Get(STOCK_RETURNS_STATUS, k, NoSeries).ready )
        => Status(k).loaded

\* A step in which get_summary is called for index k (it calls
\* ensure_index_loaded(k) first): it answers at once, or it goes on to ask
\* for read access.
SummaryCalled(k) ==
    /\ handler.pc = "idle"
    /\ \/ resp' # resp /\ resp'.name = "summary" /\ resp'.key = k
       \/ handler'.pc = "read_first" /\ handler'.name = "summary" /\ handler'.key = k

\* The tasks after exactly one _bg_load for k was submitted.
OneLazyLoadStarted(k) ==
    \E t \in TaskIds :
        /\ tasks[t].pc = "idle"
        /\ tasks' = [tasks EXCEPT ![t] = NewTask("lazy", k, "fetch")]

\* Everything ensure_index_loaded could touch is unchanged.
EnsureChangedNothing ==
    UNCHANGED <<INDEX_LOAD_STATUS, SECTOR_SERIES_STATUS, INDUSTRY_SERIES_STATUS,
                STOCK_RETURNS_STATUS, PREWARM_STATUS, INDEX_PRICES_LOADED,
                INDEX_PRICES_ROW_COUNT, API_CACHE, ALL_SERIES_CACHE, local_db,
                tasks>>

C4_Step ==
    \A k \in MARKET_INDICES :
        SummaryCalled(k) =>
            IF Status(k).loaded
              THEN /\ EnsureChangedNothing
                   /\ resp'.ensured \/ handler'.pc = "read_first"
            ELSE IF Status(k).loading
              THEN /\ EnsureChangedNothing
                   /\ ~resp'.ensured /\ handler'.pc = "idle"
              ELSE /\ INDEX_LOAD_STATUS' = Put(INDEX_LOAD_STATUS, k, Loading)
                   /\ OneLazyLoadStarted(k)
                   /\ ~resp'.ensured /\ handler'.pc = "idle"

\* C4: ensure_index_loaded(k) on an Unloaded dataset sets it Loading,
\* starts exactly one background load and returns False; on a Loading
\* dataset it returns False, starts nothing and changes nothing; on a
\* Loaded dataset it returns True and changes nothing.
C4_EnsureIndexLoaded == [][C4_Step]_vars

\* C4 witness: a request has just found its dataset Unloaded; the dataset
\* is Loading and its background load is in flight.
C4_Witness ==
    \E k \in MARKET_INDICES, t \in TaskIds :
        /\ resp.name = "summary" /\ resp.key = k /\ ~resp.ensured
        /\ Status(k) = Loading
        /\ tasks[t].kind = "lazy" /\ tasks[t].key = k /\ tasks[t].pc = "fetch"

\* A refresh of k that found k Loaded is inside its load step: from the
\* registry entry set to Loading until the entry is written again.
Reloading(k) ==
    \E t \in TaskIds :
        /\ tasks[t].kind = "refresh" /\ tasks[t].key = k /\ tasks[t].reload
        /\ tasks[t].phase = "load"
        /\ tasks[t].pc \in {"fetch", "acq", "in", "end"}

Quiescent ==
    /\ \A t \in TaskIds : tasks[t].pc \in {"idle", "done"}
    /\ handler.pc = "idle"

\* C6: once the loads that changed the set of Loaded datasets are over,
\* the views 'prices' and 'latest_prices' are the union of exactly the
\* tables of the Loaded datasets.
C6_ViewsAreLoadedSet ==
    (Quiescent /\ LoadedIndices(INDEX_LOAD_STATUS) # {})
    => /\ local_db.view_prices = LoadedIndices(INDEX_LOAD_STATUS)
       /\ local_db.view_latest = LoadedIndices(INDEX_LOAD_STATUS)

RefreshStarts(t) ==
    /\ tasks[t].kind = "refresh" /\ tasks[t].pc = "start"
    /\ tasks'[t].pc = "fetch"

RefreshCompletes(t) ==
    /\ tasks[t].kind = "refresh" /\ tasks[t].phase = "final"
    /\ tasks'[t].pc = "done"

CacheKeysContaining(cache, index_key) ==
    {k \in DOMAIN cache : IsSubstring(KeyStr(index_key), k)}

C7_Step ==
    \A t \in TaskIds :
        (RefreshStarts(t) \/ RefreshCompletes(t))
        => CacheKeysContaining(API_CACHE', tasks[t].key) = {}

\* C7: refresh_single_index(k) removes every cache entry whose key
\* contains k before its load starts and again when it completes.
C7_RefreshInvalidates == [][C7_Step]_vars

\* C7 witness: a refresh is about to run its final invalidation while the
\* cache holds an entry whose key contains its index key.
C7_Witness ==
    \E t \in TaskIds :
        /\ tasks[t].kind = "refresh" /\ tasks[t].phase = "final"
        /\ CacheKeysContaining(API_CACHE, tasks[t].key) # {}

C8_Step ==
    \A t \in TaskIds :
        (tasks[t].kind = "index_prices" /\ tasks'[t].pc = "done" /\ tasks[t].rc > 0)
        => CacheKeysContaining(API_CACHE', INDEX_PRICES_KEY) = {}

\* C8: when the index-level prices dataset has been reloaded, no cache
\* entry whose key contains "index_prices" is left.
C8_IndexPricesInvalidated == [][C8_Step]_vars

C9_Step ==
    \A t \in TaskIds :
        ( /\ tasks[t].kind \in {"lazy", "refresh"}
          /\ tasks[t].phase = "load" /\ tasks[t].pc = "end"
          /\ tasks'[t] # tasks[t] )
        => INDEX_LOAD_STATUS'[tasks[t].key] =
              [loaded |-> tasks[t].rc > 0, loading |-> FALSE,
               row_count |-> tasks[t].rc]

C9_Entries ==
    \A k \in DOMAIN INDEX_LOAD_STATUS :
        /\ ~(INDEX_LOAD_STATUS[k].loaded /\ INDEX_LOAD_STATUS[k].loading)
        /\ INDEX_LOAD_STATUS[k].loaded => INDEX_LOAD_STATUS[k].row_count > 0

\* C9: the entry written when a load completes has loaded = (row_count > 0)
\* and loading = false; no entry is loaded and loading at once, and every
\* loaded entry has row_count > 0.
C9_RegistryEntries == []C9_Entries /\ [][C9_Step]_vars

\* C9 witness: one dataset is Loaded with its row count, another has just
\* failed to load.
C9_Witness ==
    \E k, j \in DOMAIN INDEX_LOAD_STATUS :
        /\ INDEX_LOAD_STATUS[k].loaded /\ INDEX_LOAD_STATUS[k].row_count > 0
        /\ INDEX_LOAD_STATUS[j] = StatusRec(FALSE, FALSE, 0)

C10_Step ==
    \A t \in TaskIds :
        (InLoader(t) /\ tasks'[t] # tasks[t]) =>
            /\ tasks'[t].phase = "load"
            /\ tasks'[t].pc \in {"acq", "in", "end"}
            /\ faults' # faults => tasks'[t].pc = "end" /\ tasks'[t].rc = 0
            /\ (tasks[t].pc = "in") => (tasks'[t].pc = "end" /\ ~db_rwlock'.locked)

\* C10: _load_index_from_bq never raises to its caller: an exception in
\* the fetch or in the write section ends the loader with row_count 0, and
\* the write access is released.
C10_LoaderNeverRaises == [][C10_Step]_vars

\* C10 witness: a loader has returned 0 after CREATE of the latest table
\* raised inside its write section; the lock is free.
C10_Witness ==
    \E t \in TaskIds :
        /\ tasks[t].kind \in {"lazy", "refresh"}
        /\ tasks[t].phase = "load" /\ tasks[t].pc = "end" /\ tasks[t].rc = 0
        /\ faults = 1
        /\ local_db.prices[tasks[t].key] # NoTable
        /\ local_db.latest[tasks[t].key] = NoTable
        /\ ~db_rwlock.locked

C11_Step ==
    \A t \in TaskIds :
        ( /\ InLoader(t) /\ tasks[t].pc = "fetch"
          /\ tasks'[t].pc = "end" /\ faults' = faults )
        => /\ tasks'[t].rc = 0
           /\ local_db'.prices[tasks[t].key] = local_db.prices[tasks[t].key]
           /\ local_db'.latest[tasks[t].key] = local_db.latest[tasks[t].key]
           /\ local_db'.view_prices = local_db.view_prices
           /\ local_db'.view_latest = local_db.view_latest
           /\ db_rwlock' = db_rwlock

\* C11: when the fetch returns zero rows the loader returns 0 without
\* entering its write section: the dataset's raw table, its latest table
\* and the unified views are unchanged and the lock is not touched.
C11_EmptyFetchLeavesState == [][C11_Step]_vars

\* C11 witness: a loader has returned 0 on an empty fetch, no exception
\* was raised, and the tables of an earlier load are still in the store.
C11_Witness ==
    \E t \in TaskIds :
        /\ tasks[t].kind \in {"lazy", "refresh"}
        /\ tasks[t].phase = "load" /\ tasks[t].pc = "end" /\ tasks[t].rc = 0
        /\ faults = 0
        /\ local_db.prices[tasks[t].key] # NoTable
        /\ local_db.latest[tasks[t].key] # NoTable

\* ------------------------------------------------- the response cache alone

\* The instants at which the cache is used: around one and two lifetimes
\* of an entry.
Instants ==
    {0, 1, CACHE_TTL - 1, CACHE_TTL, CACHE_TTL + 1, 2 * CACHE_TTL}

CacheKeys ==
    {SummaryKey("sp500"), SectorTableKey("sp500", "max"), IndexPricesSummaryKey}

\* The values handlers store: a non-empty result and the empty list.
CacheValues == {CreateIndexTable(WarehouseFrameSeq[1]), {}}

CacheOthersUnchanged ==
    UNCHANGED <<INDEX_LOAD_STATUS, SECTOR_SERIES_STATUS, INDUSTRY_SERIES_STATUS,
                STOCK_RETURNS_STATUS, PREWARM_STATUS, INDEX_PRICES_LOADED,
                INDEX_PRICES_ROW_COUNT, ALL_SERIES_CACHE, local_db, db_rwlock,
                tasks, handler, lockpc, faults, ingest>>

\* time.time() has advanced.
Tick ==
    /\ \E t \in Instants : t > now /\ now' = t
    /\ resp' = NoResp
    /\ UNCHANGED API_CACHE
    /\ CacheOthersUnchanged

CacheSet(cache_key, data) ==
    /\ API_CACHE' = set_cached_response(API_CACHE, cache_key, data, now)
    /\ resp' = Resp("cache_set", cache_key, "ok", FALSE, FALSE, data)
    /\ UNCHANGED now
    /\ CacheOthersUnchanged

CacheGet(cache_key) ==
    /\ resp' = Resp("cache_get", cache_key, "ok", FALSE, FALSE,
                    get_cached_response(API_CACHE, cache_key, now))
    /\ UNCHANGED <<API_CACHE, now>>
    /\ CacheOthersUnchanged

CacheInvalidate(index_key) ==
    /\ API_CACHE' = invalidate_index_cache(API_CACHE, index_key)
    /\ resp' = Resp("invalidate", index_key, "ok", FALSE, FALSE, None)
    /\ UNCHANGED now
    /\ CacheOthersUnchanged

CacheNext ==
    \/ Tick
    \/ \E cache_key \in CacheKeys, data \in CacheValues : CacheSet(cache_key, data)
    \/ \E cache_key \in CacheKeys : CacheGet(cache_key)
    \/ \E index_key \in MARKET_INDICES \cup {INDEX_PRICES_KEY} :
            CacheInvalidate(index_key)

SpecCache == Init /\ [][CacheNext]_vars

C12_Read ==
    resp.name = "cache_get" =>
        IF /\ resp.key \in DOMAIN API_CACHE
           /\ now < API_CACHE[resp.key].timestamp + CACHE_TTL
          THEN resp.result = API_CACHE[resp.key].data
          ELSE resp.result = None

C12_ReadStep == resp'.name = "cache_get" => API_CACHE' = API_CACHE

\* C12: an entry stored at time T is returned unchanged by every read
\* before T + CACHE_TTL and reported absent (None) by every read at
\* T + CACHE_TTL or later; a read removes no entry, expired or not.
C12_CacheTTL == []C12_Read /\ [][C12_ReadStep]_vars

\* C12 witness: a read exactly CACHE_TTL after the entry was stored has
\* answered None, and the entry is still stored.
C12_Witness ==
    /\ resp.name = "cache_get" /\ resp.result = None
    /\ resp.key \in DOMAIN API_CACHE
    /\ API_CACHE[resp.key].data # {}
    /\ now = API_CACHE[resp.key].timestamp + CACHE_TTL

C13_Step ==
    resp'.name = "invalidate" =>
        \A key \in DOMAIN API_CACHE :
            IF IsSubstring(KeyStr(resp'.key), key)
              THEN /\ key \notin DOMAIN API_CACHE'
                   /\ get_cached_response(API_CACHE', key, now') = None
              ELSE /\ key \in DOMAIN API_CACHE'
                   /\ API_CACHE'[key] = API_CACHE[key]

\* C13: after invalidate_index_cache(k) no key stored before the call
\* that contains k is retrievable, and every stored key that does not
\* contain k is still stored with the same value and timestamp.
C13_InvalidateContaining == [][C13_Step]_vars

\* C13 witness: invalidate_index_cache("sp500") has run; the entry
\* "index_prices_summary" is still stored and no key contains "sp500".
C13_Witness ==
    /\ resp.name = "invalidate" /\ resp.key = "sp500"
    /\ IndexPricesSummaryKey \in DOMAIN API_CACHE
    /\ CacheKeysContaining(API_CACHE, "sp500") = {}

\* ------------------------------------- handlers of one per-index dataset

\* get_summary and get_industry_breakdown on one dataset, with its lazy
\* load and its refresh.
HandlersNext ==
    \/ GetSummary("sp500")
    \/ \E index \in {"sp500", "bogus"} : GetIndustryBreakdown(index)
    \/ HandlerReadFirst
    \/ HandlerQuery
    \/ webhook_refresh_index("sp500")
    \/ \E t \in TaskIds : TaskStep(t)

SpecHandlers == Init /\ [][HandlersNext]_vars

DatasetHandlers == {"summary", "industry_breakdown"}

\* A step in which a handler of DatasetHandlers is called for dataset k.
DatasetCalled(k) ==
    /\ handler.pc = "idle"
    /\ \/ resp' # resp /\ resp'.name \in DatasetHandlers /\ resp'.key = k
       \/ /\ handler'.pc = "read_first"
          /\ handler'.name \in DatasetHandlers /\ handler'.key = k

C14_Step ==
    \A k \in MARKET_INDICES :
        (DatasetCalled(k) /\ ~Status(k).loaded)
        => /\ resp'.result = {}
           /\ handler'.pc = "idle"
           /\ db_rwlock' = db_rwlock

\* C14: a handler called for a dataset that is Unloaded or Loading returns
\* its empty result at once, without asking for read access.
C14_FailSoft == [][C14_Step]_vars

\* C15: no handler is inside its read section, reading a table of a
\* dataset, while that dataset's registry entry is not Loaded.
C15_ReadsOnlyLoaded ==
    (handler.pc = "query" /\ handler.name \in DatasetHandlers)
    => Status(handler.key).loaded

\* ------------------------------------------------------- startup preload

\* preload_all_indices: `remaining`
Remaining == MARKET_INDICES \ PHASE1

\* Variant of Phase1Done: the first gather returns as soon as one priority
\* refresh has finished.
Phase1Done_any ==
    \E k \in PHASE1 : tasks[ChildSlot(k)].pc = "done"

\* Variant of Phase1Done: the first gather is not awaited.
Phase1Done_not_awaited ==
    \A k \in PHASE1 : tasks[ChildSlot(k)].pc # "idle"

\* `await asyncio.gather(*phase1_tasks, return_exceptions=True)` returns:
\* every priority refresh has run to its end.
Phase1Done ==
    \A k \in PHASE1 : tasks[ChildSlot(k)].pc = "done"

\* `await asyncio.gather(*phase2_tasks)` returns.
Phase2Done ==
    \A k \in Remaining \cup {INDEX_PRICES_KEY} : tasks[ChildSlot(k)].pc = "done"

PreloadOthersUnchanged ==
    UNCHANGED <<INDEX_LOAD_STATUS, SECTOR_SERIES_STATUS, INDUSTRY_SERIES_STATUS,
                STOCK_RETURNS_STATUS, PREWARM_STATUS, INDEX_PRICES_LOADED,
                INDEX_PRICES_ROW_COUNT, API_CACHE, ALL_SERIES_CACHE, db_rwlock,
                handler, now, lockpc, faults, ingest>>

\* The coroutines a phase creates, each in its slot, not yet run.
Spawn(keys, phase) ==
    [t \in AllTaskIds |->
        IF t = PreloadSlot
          THEN [NoTask EXCEPT !.kind = "preload", !.key = "all",
                              !.phase = phase, !.pc = "await"]
        ELSE IF \E k \in keys : t = ChildSlot(k)
          THEN LET k == CHOOSE k \in keys : t = ChildSlot(k) IN
               NewTask(IF k = INDEX_PRICES_KEY THEN "index_prices" ELSE "refresh",
                       k, "start")
          ELSE tasks[t]]

\* lifespan starts background_startup; preload_all_indices runs up to its
\* first gather: the refreshes of the priority indices are created.
PreloadStart ==
    /\ LoopFree
    /\ tasks[PreloadSlot].pc = "idle"
    /\ tasks' = Spawn(PHASE1, "phase1")
    /\ resp' = NoResp
    /\ UNCHANGED local_db
    /\ PreloadOthersUnchanged

\* The first gather has returned; preload_all_indices runs up to its second
\* gather: the refreshes of the remaining indices and the load of the
\* index-level prices are created.
PreloadPhase2 ==
    /\ LoopFree
    /\ tasks[PreloadSlot].kind = "preload" /\ tasks[PreloadSlot].phase = "phase1"
    /\ Phase1Done
    /\ tasks' = Spawn(Remaining \cup {INDEX_PRICES_KEY}, "phase2")
    /\ resp' = NoResp
    /\ UNCHANGED local_db
    /\ PreloadOthersUnchanged

\* _load_index_prices (the coroutine of phase 2) submits
\* _load_index_prices_from_bq to the executor.  The event loop runs the
\* coroutines of a gather in the order of their creation, so those of the
\* remaining indices have reached their first await before.
IndexPricesStart(t) ==
    /\ LoopFree
    /\ tasks[t].kind = "index_prices" /\ tasks[t].pc = "start"
    /\ \A k \in Remaining : tasks[ChildSlot(k)].pc # "start"
    /\ tasks' = [tasks EXCEPT ![t].pc = "fetch"]
    /\ resp' = NoResp
    /\ UNCHANGED local_db
    /\ PreloadOthersUnchanged

\* The second gather has returned: the views are rebuilt under write
\* access, on the event loop thread, and preload_all_indices returns.
PreloadRebuild ==
    /\ LoopFree
    /\ tasks[PreloadSlot].kind = "preload" /\ tasks[PreloadSlot].phase = "phase2"
    /\ Phase2Done
    /\ ~db_rwlock.locked
    /\ local_db' = _rebuild_unified_view(local_db, INDEX_LOAD_STATUS).db
    /\ tasks' = Finish(PreloadSlot)
    /\ resp' = NoResp
    /\ PreloadOthersUnchanged

PreloadNext ==
    \/ PreloadStart
    \/ PreloadPhase2
    \/ PreloadRebuild
    \/ \E t \in PreloadTaskIds :
         \/ RefreshTaskStep(t)
         \/ IndexPricesStart(t)
         \/ IndexPricesWrite(t)
         \/ IndexPricesEnd(t)

SpecPreload == Init /\ [][PreloadNext]_vars

\* The coroutine the preload created for key k has begun to run.
ChildStarted(k) == tasks[ChildSlot(k)].pc \notin {"idle", "start"}

\* The loader of the refresh the preload created for index k has
\* returned.
ChildLoadReturned(k) ==
    \/ tasks[ChildSlot(k)].pc = "done"
    \/ /\ tasks[ChildSlot(k)].kind = "refresh"
       /\ \/ tasks[ChildSlot(k)].phase # "load"
          \/ tasks[ChildSlot(k)].pc = "end"

\* C16 as stated: the load of the index-level prices does not start until
\* the load of every per-index dataset has finished.
C16_IndexPricesLoadsLast ==
    ChildStarted(INDEX_PRICES_KEY)
    => \A k \in MARKET_INDICES : ChildLoadReturned(k)

\* C16 amended: the load of the index-level prices does not start until
\* the refreshes of both priority datasets have finished; it is started
\* together with the refreshes of the other datasets.
C16_IndexPricesAfterPriority ==
    ChildStarted(INDEX_PRICES_KEY)
    => /\ tasks[ChildSlot("stoxx50")].pc = "done"
       /\ tasks[ChildSlot("sp500")].pc = "done"
       /\ \A k \in MARKET_INDICES \ {"stoxx50", "sp500"} : ChildStarted(k)

\* C16 witness: the index-level prices are being fetched while the loader
\* of a non-priority dataset is still running.
C16_Witness ==
    /\ tasks[ChildSlot(INDEX_PRICES_KEY)].pc = "fetch"
    /\ tasks[ChildSlot("ftse100")].phase = "load"
    /\ tasks[ChildSlot("ftse100")].pc = "in"
    /\ tasks[ChildSlot("stoxx50")].pc = "done"
    /\ tasks[ChildSlot("sp500")].pc = "done"

SeriesStatusOf(sector, industry, returns, phase) ==
    CASE phase = "sector"   -> sector
      [] phase = "industry" -> industry
      [] OTHER              -> returns

\* d without its entry for k.
Without(d, k) == Restrict(d, DOMAIN d \ {k})

\* A step in which the precomputation run by task t returns after its
\* write section failed or found no data.
PrecomputeFails(t) ==
    /\ tasks[t].phase \in SeriesPhases /\ tasks[t].pc = "end"
    /\ tasks[t].out # "ok"
    /\ tasks'[t] # tasks[t]

C18_Step ==
    \A t \in TaskIds :
        PrecomputeFails(t)
        => LET phase == tasks[t].phase
               key == tasks[t].key
               before == SeriesStatusOf(SECTOR_SERIES_STATUS, INDUSTRY_SERIES_STATUS,
                                        STOCK_RETURNS_STATUS, phase)
               after == SeriesStatusOf(SECTOR_SERIES_STATUS', INDUSTRY_SERIES_STATUS',
                                       STOCK_RETURNS_STATUS', phase)
           IN /\ key \in DOMAIN after
              /\ after[key] = SeriesRec(FALSE, FALSE)
              /\ Without(after, key) = Without(before, key)
              /\ \A other \in SeriesPhases \ {phase} :
                    SeriesStatusOf(SECTOR_SERIES_STATUS', INDUSTRY_SERIES_STATUS',
                                   STOCK_RETURNS_STATUS', other)
                    = SeriesStatusOf(SECTOR_SERIES_STATUS, INDUSTRY_SERIES_STATUS,
                                     STOCK_RETURNS_STATUS, other)
              /\ PREWARM_STATUS' = PREWARM_STATUS
              /\ INDEX_LOAD_STATUS' = INDEX_LOAD_STATUS
              /\ tasks'[t].key = key
              /\ tasks'[t].phase = NextPhase(phase)
              /\ tasks'[t].pc = "begin"

\* C18: a precomputation that raises, or for stock returns finds no data,
\* sets its own derivation status to not ready and not computing, leaves
\* INDEX_LOAD_STATUS and every other derivation status unchanged, and the
\* load goes on to its next precomputation.
C18_PrecomputeFailureIsLocal == [][C18_Step]_vars

\* C18 witness: the industry precomputation of a loaded dataset has failed
\* (its status is not ready, not computing, while the sector series are
\* ready) and the same load is now inside the stock-returns precomputation.
C18_Witness ==
    \E t \in TaskIds :
        /\ tasks[t].phase = "returns" /\ tasks[t].pc = "in"
        /\ faults = 1
        /\ Status(tasks[t].key).loaded
        /\ Get(SECTOR_SERIES_STATUS, tasks[t].key, NoSeries).ready
        /\ Get(INDUSTRY_SERIES_STATUS, tasks[t].key, NoSeries) = SeriesRec(FALSE, FALSE)

DerivationPhases == SeriesPhases \cup {"prewarm"}

\* The phase a load or refresh is in just before it enters `phase`.
PhaseBefore(phase) ==
    CASE phase = "sector"   -> "load"
      [] phase = "industry" -> "sector"
      [] phase = "returns"  -> "industry"
      [] OTHER              -> "returns"

\* No precompute or prewarm step belongs to a load that returned 0.
C19_Positive ==
    \A t \in TaskIds :
        tasks[t].phase \in DerivationPhases
        => /\ tasks[t].kind \in {"lazy", "refresh"}
           /\ tasks[t].rc > 0

C19_Step ==
    \A t \in TaskIds :
        /\ ( tasks'[t].phase \in DerivationPhases /\ tasks'[t].phase # tasks[t].phase )
           => /\ tasks[t].phase = PhaseBefore(tasks'[t].phase)
              /\ tasks[t].pc = "end"
              /\ tasks'[t].pc = "begin"
              /\ tasks'[t].key = tasks[t].key
              /\ tasks'[t].phase = "sector"
                   => Get(INDEX_LOAD_STATUS', tasks[t].key, NoStatus)
                        = StatusRec(TRUE, FALSE, tasks[t].rc)
        /\ ( /\ tasks[t].kind \in {"lazy", "refresh"}
             /\ tasks[t].phase = "load" /\ tasks[t].pc = "end" /\ tasks[t].rc = 0
             /\ tasks'[t] # tasks[t] )
           => tasks'[t].phase \notin DerivationPhases
        /\ ( /\ tasks[t].phase \in DerivationPhases /\ tasks[t].pc = "end"
             /\ tasks[t].phase # "prewarm" /\ tasks'[t] # tasks[t] )
           => tasks'[t].phase = NextPhase(tasks[t].phase)

\* C19: in the lazy-load path and in the refresh path a precompute or
\* prewarm step runs only for a load that returned row_count > 0; the
\* sector precomputation starts in the step that writes the Loaded registry
\* entry, and the steps run in the order sector series, industry series,
\* stock returns, cache prewarm.
C19_PrecomputeAfterLoad == []C19_Positive /\ [][C19_Step]_vars

\* C19 witness: a lazy load that returned rows has run its three
\* precomputations and is in the cache prewarm.
C19_Witness ==
    \E t \in TaskIds :
        /\ tasks[t].kind = "lazy" /\ tasks[t].phase = "prewarm"
        /\ tasks[t].rc > 0
        /\ Get(SECTOR_SERIES_STATUS, tasks[t].key, NoSeries).ready
        /\ Get(INDUSTRY_SERIES_STATUS, tasks[t].key, NoSeries).ready
        /\ Get(STOCK_RETURNS_STATUS, tasks[t].key, NoSeries).ready

\* --------------------------------------------- the single-dataset webhook

\* The keys trigger_refresh accepts.
ValidRefreshKeys == MARKET_INDICES \cup {INDEX_PRICES_KEY}

\* A step that schedules one background reload of dataset k and nothing
\* else: a free slot takes a task for k that has not run yet.
SchedulesReload(k) ==
    \E t \in TaskIds :
        /\ tasks[t].pc = "idle"
        /\ tasks'[t].key = k /\ tasks'[t].phase = "load"
        /\ tasks'[t].pc \in {"start", "fetch"}
        /\ \A u \in AllTaskIds \ {t} : tasks'[u] = tasks[u]

C20_Step ==
    resp'.name = "webhook"
    => /\ UNCHANGED <<INDEX_LOAD_STATUS, SECTOR_SERIES_STATUS,
                      INDUSTRY_SERIES_STATUS, STOCK_RETURNS_STATUS,
                      PREWARM_STATUS, INDEX_PRICES_LOADED,
                      INDEX_PRICES_ROW_COUNT, API_CACHE, ALL_SERIES_CACHE,
                      local_db, db_rwlock>>
       /\ IF resp'.key \in ValidRefreshKeys
            THEN /\ resp'.status = "accepted"
                 /\ SchedulesReload(resp'.key)
            ELSE /\ resp'.status = "error"
                 /\ tasks' = tasks

\* C20: the single-dataset webhook, for a configured index or for
\* "index_prices", schedules a background reload and answers "accepted" in
\* the same step, before the load has run; for any other key it answers
\* with an error and changes no registry, cache or store state.
C20_TriggerRefresh == [][C20_Step]_vars

\* ---------------------------------------------------- the keyless webhook

\* The refreshes webhook_refresh has created so far.
WebhookCreated ==
    {k \in MARKET_INDICES : tasks[WebhookChildSlot(k)].pc # "idle"}

\* The single-dataset loads in flight.
InFlight == {t \in TaskIds : tasks[t].pc \notin {"idle", "done"}}

\* The moments at which the keyless webhook is called: at most
\* MaxInFlightAtCall single-dataset loads are in flight.
WebhookArrival == Cardinality(InFlight) <= MaxInFlightAtCall

\* webhook_refresh up to its first await, `loaded` being the list it has
\* computed: when the list is empty the handler returns "skipped", otherwise
\* the refresh of its first index is created and the handler sleeps.  The
\* list is kept in the handler's frame.
WebhookRefreshFrom(loaded) ==
    /\ LoopFree
    /\ tasks[WebhookSlot].pc = "idle"
    /\ WebhookArrival
    /\ IF loaded = {}
         THEN /\ resp' = Resp("webhook_all", "all", "skipped", FALSE, FALSE, None)
              /\ UNCHANGED tasks
         ELSE /\ \E idx \in loaded :
                   tasks' = [tasks EXCEPT
                       ![WebhookSlot] = [NoTask EXCEPT !.kind = "webhook", !.key = "all",
                                                       !.phase = "loop", !.pc = "sleep",
                                                       !.data = loaded],
                       ![WebhookChildSlot(idx)] = NewTask("refresh", idx, "start")]
              /\ resp' = NoResp
    /\ UNCHANGED local_db
    /\ PreloadOthersUnchanged

\* Variant of webhook_refresh: every index with a registry entry is
\* refreshed, loaded or not.
webhook_refresh_ignores_loaded == WebhookRefreshFrom(DOMAIN INDEX_LOAD_STATUS)

\* POST /api/admin/refresh:
\* loaded = [k for k, v in INDEX_LOAD_STATUS.items() if v.get("loaded")]
webhook_refresh == WebhookRefreshFrom(LoadedIndices(INDEX_LOAD_STATUS))

\* webhook_refresh after `await asyncio.sleep(0.5)`: the refresh of the next
\* index of `loaded` is created, or the loop is over and the handler
\* returns "accepted".
WebhookRefreshLoop ==
    LET todo == tasks[WebhookSlot].data \ WebhookCreated IN
    /\ LoopFree
    /\ tasks[WebhookSlot].kind = "webhook" /\ tasks[WebhookSlot].pc = "sleep"
    /\ IF todo = {}
         THEN /\ tasks' = [tasks EXCEPT ![WebhookSlot].pc = "done"]
              /\ resp' = Resp("webhook_all", "all", "accepted", FALSE, FALSE, None)
         ELSE /\ \E idx \in todo :
                   tasks' = [tasks EXCEPT
                       ![WebhookChildSlot(idx)] = NewTask("refresh", idx, "start")]
              /\ resp' = NoResp
    /\ UNCHANGED local_db
    /\ PreloadOthersUnchanged

\* The keyless webhook after single-dataset webhooks: a refresh of a
\* dataset that is not loaded loads it.
RefreshAllNext ==
    \/ /\ tasks[WebhookSlot].pc = "idle"
       /\ \E k \in RequestedIndices \cup {INDEX_PRICES_KEY} : webhook_refresh_index(k)
    \/ webhook_refresh
    \/ WebhookRefreshLoop
    \/ \E t \in TaskIds :
         \/ RefreshTaskStep(t)
         \/ IndexPricesWrite(t)
         \/ IndexPricesEnd(t)
    \/ \E t \in WebhookTaskIds : RefreshTaskStep(t)

SpecRefreshAll == Init /\ [][RefreshAllNext]_vars

\* The datasets that are Loaded: the loaded indices and, when its flag is
\* set, the index-level prices.
LoadedDatasets ==
    LoadedIndices(INDEX_LOAD_STATUS)
      \cup (IF INDEX_PRICES_LOADED THEN {INDEX_PRICES_KEY} ELSE {})

\* A step of the keyless webhook, `atCall` being the datasets it is to
\* refresh when it is called.
WebhookRefreshStep(atCall) ==
    /\ ( tasks[WebhookSlot].pc = "idle" /\ tasks'[WebhookSlot].pc # "idle" )
       => /\ atCall # {}
          /\ tasks'[WebhookSlot].data = atCall
    /\ ( resp'.name = "webhook_all" /\ resp'.status = "skipped" )
       => /\ atCall = {}
          /\ tasks' = tasks
    /\ tasks[WebhookSlot].pc # "idle"
       => tasks'[WebhookSlot].data = tasks[WebhookSlot].data
    /\ \A k \in MARKET_INDICES :
         ( tasks[WebhookChildSlot(k)].pc = "idle"
           /\ tasks'[WebhookChildSlot(k)].pc # "idle" )
         => /\ k \in tasks'[WebhookSlot].data
            /\ tasks'[WebhookChildSlot(k)] = NewTask("refresh", k, "start")
    /\ ( resp'.name = "webhook_all" /\ resp'.status = "accepted" )
       => {k \in MARKET_INDICES : tasks'[WebhookChildSlot(k)].pc # "idle"}
            = tasks[WebhookSlot].data

\* C21 as stated: the keyless webhook refreshes every dataset that is
\* Loaded when it is called, the index-level prices included, and returns
\* "skipped" only when no dataset is Loaded.
C21_RefreshesEveryLoaded == [][WebhookRefreshStep(LoadedDatasets)]_vars

\* C21 amended: the keyless webhook starts one refresh for each index
\* whose registry entry is loaded when it is called and for no other
\* dataset; the index-level prices are not refreshed by it; it returns
\* "skipped" and starts nothing when no index is loaded.
C21_RefreshesLoadedIndices ==
    [][WebhookRefreshStep(LoadedIndices(INDEX_LOAD_STATUS))]_vars

\* C21 witness: the keyless webhook has returned "accepted" after it
\* created the refreshes of the two indices that were loaded at its call.
C21_Witness ==
    /\ resp.name = "webhook_all" /\ resp.status = "accepted"
    /\ tasks[WebhookSlot].data = {"sp500", "ftse100"}
    /\ WebhookCreated = {"sp500", "ftse100"}

\* ------------------------------------------------------ no automatic retry

\* The registry entry of a dataset whose last load returned 0.
FailedStatus(k) ==
    /\ k \in DOMAIN INDEX_LOAD_STATUS
    /\ INDEX_LOAD_STATUS[k] = StatusRec(FALSE, FALSE, 0)

\* A step in which the single-dataset webhook answers for dataset k.
RefreshTriggered(k) == resp'.name = "webhook" /\ resp'.key = k

\* The tasks after exactly one refresh of k was scheduled.
OneRefreshScheduled(k) ==
    \E t \in TaskIds :
        /\ tasks[t].pc = "idle"
        /\ tasks' = [tasks EXCEPT ![t] = NewTask("refresh", k, "start")]

C22_Step ==
    /\ \A t \in TaskIds :
         /\ ( tasks[t].pc = "idle" /\ tasks'[t].pc # "idle" )
            => \/ /\ SummaryCalled(tasks'[t].key)
                  /\ tasks'[t] = NewTask("lazy", tasks'[t].key, "fetch")
               \/ /\ RefreshTriggered(tasks'[t].key)
                  /\ tasks'[t] = NewTask("refresh", tasks'[t].key, "start")
         /\ ( tasks'[t].pc = "fetch" /\ tasks[t].pc # "fetch" )
            => tasks[t].pc \in {"idle", "start"}
    /\ \A k \in MARKET_INDICES :
         FailedStatus(k)
         => /\ SummaryCalled(k)
               => /\ OneLazyLoadStarted(k)
                  /\ INDEX_LOAD_STATUS' = Put(INDEX_LOAD_STATUS, k, Loading)
            /\ RefreshTriggered(k) => OneRefreshScheduled(k)

\* C22: a load of a dataset starts only in a step that is a trigger, a lazy
\* access or a refresh webhook, or as the first step of a refresh such a
\* trigger scheduled; a load that returned 0 is not run again; and after a
\* load returned 0 the next lazy access starts one fresh load and the next
\* refresh webhook schedules one refresh.
C22_NoAutomaticRetry == [][C22_Step]_vars

\* C22 witness: the first load of sp500 ended without writing anything (a
\* fetch failure or an empty result), and a lazy access has started the
\* second load, which is fetching.
C22_Witness ==
    /\ tasks[1].pc = "done"
    /\ tasks[2] = NewTask("lazy", "sp500", "fetch")
    /\ DOMAIN INDEX_LOAD_STATUS = {"sp500"}
    /\ INDEX_LOAD_STATUS["sp500"] = Loading
    /\ local_db.prices["sp500"] = NoTable

\* ------------------------------------------------- loads run to their end

\* One dataset with its lazy loads and its refreshes.
LiveNext ==
    \/ GetSummary("sp500")
    \/ HandlerReadFirst
    \/ HandlerQuery
    \/ webhook_refresh_index("sp500")
    \/ \E t \in TaskIds : TaskStep(t)

\* Scheduling: a thread or coroutine whose next step is possible again and
\* again takes it (the warehouse fetch returns, a thread waiting for the
\* lock gets it, the event loop runs every ready coroutine), and a handler
\* that has entered its read section leaves it.
LiveFairness ==
    /\ \A t \in TaskIds : SF_vars(TaskStep(t))
    /\ SF_vars(HandlerReadFirst)
    /\ WF_vars(HandlerQuery)

SpecLive == Init /\ [][LiveNext]_vars /\ LiveFairness

\* C23: every dataset that enters Loading eventually leaves Loading.
C23_LoadingEnds ==
    \A k \in MARKET_INDICES : Status(k).loading ~> ~Status(k).loading

\* C23 witness: the dataset sp500 has left Loading for not loaded with
\* row_count 0, and its load has returned.
C23_Witness ==
    /\ FailedStatus("sp500")
    /\ \A t \in TaskIds : tasks[t].pc \in {"idle", "done"}
    /\ \E t \in TaskIds : tasks[t].pc = "done"

\* ---------------------------------------------- every access to the store

\* lifespan after `yield`: the server shuts down and the event loop thread
\* closes the connection; no access of db_rwlock is requested.  What the
\* loads still running do with the closed connection is not modelled.
Shutdown ==
    /\ LoopFree
    /\ ~local_db.closed
    /\ local_db' = [local_db EXCEPT !.closed = TRUE]
    /\ resp' = NoResp
    /\ UNCHANGED tasks
    /\ PreloadOthersUnchanged

\* The server from its startup preload to its shutdown.
ShutdownNext ==
    \/ ~local_db.closed /\ PreloadNext
    \/ Shutdown

SpecShutdown == Init /\ [][ShutdownNext]_vars

\* A step taken by a thread inside a write section it has entered.
InWriteSection ==
    /\ db_rwlock.locked
    /\ \E t \in AllTaskIds : tasks[t].pc = "in" /\ tasks'[t] # tasks[t]

\* The step of preload_all_indices that enters a write section, rebuilds
\* the views and leaves it.
RebuildUnderWrite ==
    /\ ~db_rwlock.locked
    /\ tasks[PreloadSlot].phase = "phase2" /\ tasks'[PreloadSlot].pc = "done"

\* A step taken by a handler inside a read section it has entered.
InReadSection ==
    /\ db_rwlock.locked /\ db_rwlock.readers > 0
    /\ handler.pc = "query" /\ handler' # handler

\* A step in which a handler's query or a prewarm query runs.
StoreQueried ==
    \/ handler.pc = "query" /\ handler' # handler
    \/ \E t \in AllTaskIds :
         /\ tasks[t].phase = "prewarm" /\ tasks[t].pc = "in"
         /\ tasks'[t] # tasks[t]

C24_Step ==
    /\ local_db' # local_db => (InWriteSection \/ RebuildUnderWrite)
    /\ StoreQueried => (InReadSection \/ InWriteSection)

\* C24: every step that changes the store (create, replace or drop of a
\* table or view, close of the connection) is taken by a thread that holds
\* write access, and every step that queries it by a thread that holds
\* read or write access.
C24_EveryAccessGuarded == [][C24_Step]_vars

\* The connection is closed while a load is inside its write section.
C24_ClosedDuringWrite ==
    /\ local_db.closed
    /\ db_rwlock.locked
    /\ \E t \in AllTaskIds : tasks[t].phase = "load" /\ tasks[t].pc = "in"

\* ------------------------------------------------------ a waiting writer

\* A thread has called write() and has not entered its write section.
WriterWaiting == \E w \in Threads : lockpc[w] = "write_wait"

C25_Step ==
    \A t \in Threads :
        (lockpc[t] = "idle" /\ WriterWaiting) => lockpc'[t] # "reading"

\* C25: a thread that calls read() while a writer is waiting is not
\* admitted to its read section before that writer has entered.
C25_WaitingWriterBlocksReaders == [][C25_Step]_vars

\* --------------------------------------------------------------- health

\* health: the entries of `done` that belong to the indices, as pairs
\* (index, step).  An entry is appended for an index whose registry entry
\* is loaded and for each derivation whose status is ready.
HealthDone(load, sector, industry, returns, prewarm) ==
    {<<idx, "load">> : idx \in {k \in MARKET_INDICES : Get(load, k, NoStatus).loaded}}
      \cup {<<idx, "sector">> :
               idx \in {k \in MARKET_INDICES : Get(sector, k, NoSeries).ready}}
      \cup {<<idx, "industry">> :
               idx \in {k \in MARKET_INDICES : Get(industry, k, NoSeries).ready}}
      \cup {<<idx, "returns">> :
               idx \in {k \in MARKET_INDICES : Get(returns, k, NoSeries).ready}}
      \cup {<<idx, "prewarm">> :
               idx \in {k \in MARKET_INDICES :
                           Get(prewarm, k, PrewarmRec(FALSE, FALSE, 0)).ready}}

\* Variant of health: the index-level prices are not counted.
health_without_index_prices(load, sector, industry, returns, prewarm, index_prices_loaded) ==
    LET total_steps == Cardinality(MARKET_INDICES) * 5
        completed == Cardinality(HealthDone(load, sector, industry, returns, prewarm))
    IN IF completed = total_steps THEN "ready" ELSE "warming_up"

\* health: result["status"].  total_steps = len(MARKET_INDICES) * 5 + 1,
\* completed = len(done), all_done = (completed == total_steps).
health(load, sector, industry, returns, prewarm, index_prices_loaded) ==
    LET total_steps == Cardinality(MARKET_INDICES) * 5 + 1
        completed ==
            Cardinality(HealthDone(load, sector, industry, returns, prewarm))
              + (IF index_prices_loaded THEN 1 ELSE 0)
    IN IF completed = total_steps THEN "ready" ELSE "warming_up"

\* GET /health
GetHealth ==
    /\ LoopFree
    /\ resp' = Resp("health", "all",
                    health(INDEX_LOAD_STATUS, SECTOR_SERIES_STATUS,
                           INDUSTRY_SERIES_STATUS, STOCK_RETURNS_STATUS,
                           PREWARM_STATUS, INDEX_PRICES_LOADED),
                    FALSE, FALSE, None)
    /\ UNCHANGED <<tasks, local_db>>
    /\ PreloadOthersUnchanged

\* The health operation on a server that runs its startup preload.
HealthNext ==
    \/ PreloadNext
    \/ GetHealth

SpecHealth == Init /\ [][HealthNext]_vars

\* Every configured index is Loaded with its four derivations ready, and
\* the index-level prices are loaded.
AllDatasetsReady ==
    /\ \A k \in MARKET_INDICES :
         /\ Status(k).loaded
         /\ Get(SECTOR_SERIES_STATUS, k, NoSeries).ready
         /\ Get(INDUSTRY_SERIES_STATUS, k, NoSeries).ready
         /\ Get(STOCK_RETURNS_STATUS, k, NoSeries).ready
         /\ Get(PREWARM_STATUS, k, PrewarmRec(FALSE, FALSE, 0)).ready
    /\ INDEX_PRICES_LOADED

\* C26: health reports "ready" if and only if every configured index is
\* Loaded with its sector series, industry series, stock returns and cache
\* prewarm ready and the index-level prices are loaded; otherwise it
\* reports "warming_up".
C26_HealthReady ==
    resp.name = "health"
    => /\ resp.status \in {"ready", "warming_up"}
       /\ resp.status = "ready" <=> AllDatasetsReady

\* C26 witness: health has answered "ready" after a complete preload.
C26_Witness ==
    /\ resp.name = "health" /\ resp.status = "ready"
    /\ tasks[PreloadSlot].pc = "done"

\* ------------------------------------------------- the end-to-end scenario

\* The explicit refresh of the scenario arrives when the dataset is Loaded
\* and its lazy load has returned.
RefreshArrival(k) ==
    /\ Status(k).loaded
    /\ \A t \in TaskIds : tasks[t].pc \in {"idle", "done"}

\* One dataset from Unloaded through its lazy load, its queries and one
\* explicit refresh, while time passes.
ScenarioNext ==
    \/ GetRankings("sp500")
    \/ HandlerReadFirst
    \/ HandlerQuery
    \/ RefreshArrival("sp500") /\ webhook_refresh_index("sp500")
    \/ Tick
    \/ \E t \in TaskIds : TaskStep(t)

SpecScenario == Init /\ [][ScenarioNext]_vars

\* A step in which get_rankings is called for dataset k.
RankingsCalled(k) ==
    /\ handler.pc = "idle"
    /\ \/ resp'.name = "rankings" /\ resp'.key = k
       \/ handler'.pc = "read_first" /\ handler'.name = "rankings" /\ handler'.key = k

\* A step in which the load run by task t reports row_count to its caller.
LoadCompletes(t) ==
    /\ tasks[t].kind \in {"lazy", "refresh"}
    /\ tasks[t].phase = "load" /\ tasks[t].pc = "end"
    /\ tasks'[t] # tasks[t]

\* The cache holds an entry for the rankings of k that is younger than the
\* TTL.
FreshRankings(k) ==
    /\ RankingsKey(k) \in DOMAIN API_CACHE
    /\ now - API_CACHE[RankingsKey(k)].timestamp < CACHE_TTL

C27_Step ==
    \A k \in MARKET_INDICES :
        /\ ( RankingsCalled(k) /\ k \notin DOMAIN INDEX_LOAD_STATUS )
           => /\ resp'.name = "rankings" /\ resp'.result = {}
              /\ Get(INDEX_LOAD_STATUS', k, NoStatus) = Loading
        /\ \A t \in TaskIds :
             ( LoadCompletes(t) /\ tasks[t].key = k /\ tasks[t].rc > 0 )
             => Get(INDEX_LOAD_STATUS', k, NoStatus)
                  = StatusRec(TRUE, FALSE, tasks[t].rc)
        /\ ( handler.pc = "query" /\ handler.name = "rankings" /\ handler.key = k
             /\ handler'.pc = "idle" )
           => /\ resp'.result = local_db.prices[k]
              /\ resp'.result # {} /\ resp'.result # NoTable
              /\ ~resp'.cached
              /\ RankingsKey(k) \in DOMAIN API_CACHE'
              /\ API_CACHE'[RankingsKey(k)] = [data |-> resp'.result, timestamp |-> now]
        /\ ( RankingsCalled(k) /\ Status(k).loaded /\ FreshRankings(k) )
           => /\ resp'.name = "rankings" /\ resp'.cached
              /\ resp'.result = API_CACHE[RankingsKey(k)].data
              /\ handler'.pc = "idle"
        /\ \A t \in TaskIds :
             ( RefreshStarts(t) /\ tasks[t].key = k )
             => /\ Get(INDEX_LOAD_STATUS', k, NoStatus) = Loading
                /\ CacheKeysContaining(API_CACHE', k) = {}

\* C27: for a dataset that starts Unloaded the first query returns the
\* empty result and leaves it Loading; a load that completes with n > 0
\* rows leaves it Loaded with row_count n; a query on the Loaded dataset
\* returns its rows and stores them, and an identical query within the TTL
\* is answered from the cache; an explicit refresh sets the dataset back to
\* Loading and removes the cache entries containing its key, and its
\* completion with n > 0 rows restores Loaded with row_count n.
C27_EndToEnd == [][C27_Step]_vars

\* C27 witness: the lazy load and, after it, the explicit refresh of sp500
\* have run to their end, the dataset is Loaded, and a query is answered
\* from the cache that an earlier query filled after the refresh.
C27_Witness ==
    /\ resp.name = "rankings" /\ resp.cached /\ resp.result # {}
    /\ \A t \in TaskIds : tasks[t].pc = "done"
    /\ Status("sp500").loaded
    /\ now > 0

\* ------------------------------------------------------- loading twice

\* What the registries and the store hold for dataset k: row_count, the
\* raw and latest-snapshot tables, the derived tables and their statuses.
DatasetState(k) ==
    [row_count       |-> Status(k).row_count,
     prices          |-> local_db.prices[k],
     latest          |-> local_db.latest[k],
     sector_series   |-> local_db.sector_series[k],
     industry_series |-> local_db.industry_series[k],
     stock_returns   |-> local_db.stock_returns[k],
     sector_status   |-> Get(SECTOR_SERIES_STATUS, k, NoSeries),
     industry_status |-> Get(INDUSTRY_SERIES_STATUS, k, NoSeries),
     returns_status  |-> Get(STOCK_RETURNS_STATUS, k, NoSeries)]

\* The same, as one load of the warehouse frame df and the derivations
\* that follow it leave it when no statement raises.
StateAfterLoad(df) ==
    LET T == CreateIndexTable(df) IN
    [row_count       |-> Cardinality(T),
     prices          |-> T,
     latest          |-> CreateLatestTable(T),
     sector_series   |-> T,
     industry_series |-> T,
     stock_returns   |-> T,
     sector_status   |-> SeriesRec(TRUE, FALSE),
     industry_status |-> SeriesRec(TRUE, FALSE),
     returns_status  |-> SeriesRec(TRUE, FALSE)]

\* No load of k is in flight, k is Loaded and no statement has raised.
LoadOver(k) ==
    /\ \A t \in TaskIds : tasks[t].pc \in {"idle", "done"}
    /\ Status(k).loaded
    /\ faults = 0

\* A refresh of k that found k Loaded has loaded its rows again and run
\* its derivations, no statement has raised, and k is Loaded.
ReloadOver(k) ==
    /\ \E t \in TaskIds :
         /\ tasks[t].kind = "refresh" /\ tasks[t].key = k /\ tasks[t].reload
         /\ tasks[t].phase = "final" /\ tasks[t].pc = "inv"
         /\ tasks[t].rc > 0
    /\ Status(k).loaded
    /\ faults = 0

\* C28: loading a dataset a second time from an unchanged warehouse leaves
\* the same row_count, raw and latest-snapshot tables, derived tables and
\* derived statuses as the first load left: after the first load and
\* after the reload they are those of one load of the warehouse frame.
C28_ReloadIsIdempotent ==
    (LoadOver("sp500") \/ ReloadOver("sp500"))
    => \E df \in NonEmptyFrames : DatasetState("sp500") = StateAfterLoad(df)

\* C28 witness: the refresh of the Loaded dataset has loaded it a second
\* time and rebuilt its derived tables.
C28_Witness ==
    /\ ReloadOver("sp500")
    /\ local_db.stock_returns["sp500"] # NoTable
    /\ Status("sp500").row_count > 0

\* ------------------------------------------------------- deduplication

\* The rows of the frames the deduplication is checked on: two symbols,
\* one trade date, two volumes.
DedupRows == {Row(s, 1, v) : s \in {"AAA", "BBB"}, v \in {10, 20}}

\* Every frame of one to MaxRows of these rows, in every order.
DedupFrames == UNION {[1..n -> DedupRows] : n \in 1..MaxRows}

\* A lazy load of sp500 has fetched the frame df and is about to enter its
\* write section.
InitDedup ==
    /\ \E df \in DedupFrames :
         tasks = [t \in AllTaskIds |->
                    IF t = 1 THEN [NewTask("lazy", "sp500", "acq") EXCEPT !.data = df]
                             ELSE NoTask]
    /\ INDEX_LOAD_STATUS = Put(EmptyDict, "sp500", Loading)
    /\ SECTOR_SERIES_STATUS = EmptyDict
    /\ INDUSTRY_SERIES_STATUS = EmptyDict
    /\ STOCK_RETURNS_STATUS = EmptyDict
    /\ PREWARM_STATUS = EmptyDict
    /\ INDEX_PRICES_LOADED = FALSE
    /\ INDEX_PRICES_ROW_COUNT = 0
    /\ API_CACHE = EmptyDict
    /\ ALL_SERIES_CACHE = EmptyDict
    /\ local_db = LocalDbInit
    /\ db_rwlock = RWLockInit
    /\ handler = NoHandler
    /\ resp = NoResp
    /\ now = 0
    /\ lockpc = [t \in Threads |-> "idle"]
    /\ faults = 0
    /\ ingest = NoIngest

DedupNext ==
    \/ WriteAcquire(1)
    \/ LoadWriteFrom(1, {tasks[1].data})
    \/ LazySetStatus(1)

SpecDedup == InitDedup /\ [][DedupNext]_vars

\* The load of the fetched frame has written its tables and returned.
FrameLoaded ==
    /\ tasks[1].kind = "lazy" /\ tasks[1].phase = "load" /\ tasks[1].pc = "end"
    /\ tasks[1].rc > 0

SameKey(r, q) == r.symbol = q.symbol /\ r.trade_date = q.trade_date

SeriesStatus(phase, k) ==
    Get(SeriesStatusOf(SECTOR_SERIES_STATUS, INDUSTRY_SERIES_STATUS,
                       STOCK_RETURNS_STATUS, phase), k, NoSeries)

\* The derived table of derivation phase for dataset k in the store db.
DerivedTable(db, phase, k) ==
    CASE phase = "sector"   -> db.sector_series[k]
      [] phase = "industry" -> db.industry_series[k]
      [] OTHER              -> db.stock_returns[k]

\* Task t is inside the precompute function of phase for k: its first
\* statement has run, its last has not.
PrecomputeRunning(t, phase, k) ==
    /\ tasks[t].key = k /\ tasks[t].phase = phase
    /\ tasks[t].pc \in {"acq", "in", "end"}

\* Task t holds the write access.
HoldsWrite(t) == tasks[t].pc = "in"

NeverReadyAndComputing ==
    \A k \in MARKET_INDICES, phase \in SeriesPhases :
        ~(SeriesStatus(phase, k).ready /\ SeriesStatus(phase, k).computing)

ComputingWhileRunning ==
    \A k \in MARKET_INDICES, phase \in SeriesPhases :
        SeriesStatus(phase, k).computing
        <=> \E t \in TaskIds : PrecomputeRunning(t, phase, k)

\* A step in which the status of phase for k becomes ready is the last
\* statement of a precompute function that has built the table and left
\* its write section, and the table is there.
ReadyAfterBuilt ==
    \A k \in MARKET_INDICES, phase \in SeriesPhases :
        ( /\ ~SeriesStatus(phase, k).ready
          /\ Get(SeriesStatusOf(SECTOR_SERIES_STATUS', INDUSTRY_SERIES_STATUS',
                                 STOCK_RETURNS_STATUS', phase), k, NoSeries).ready )
        => /\ DerivedTable(local_db, phase, k) # NoTable
           /\ \E t \in TaskIds :
                /\ PrecomputeRunning(t, phase, k)
                /\ tasks[t].pc = "end" /\ tasks[t].out = "ok"
                /\ ~HoldsWrite(t)
                /\ tasks'[t].phase # phase

\* C30: a derivation's status entry is never ready and computing at once,
\* is computing exactly while that derivation's precompute function is
\* running, and becomes ready only after the derived table has been built
\* and the write access under which it was built has been released.
C30_DerivationStatus ==
    /\ [](NeverReadyAndComputing /\ ComputingWhileRunning)
    /\ [][ReadyAfterBuilt]_vars

\* ----------------------------------------------------- ingestion claims

\* C31: sync_index never appends a (symbol, trade_date) row that the
\* warehouse table already contains.
C31_NoDuplicateAppend ==
    (ingest.pc = "index_prices") => ingest.records \cap ingest.table = {}

\* C39: sync_stocks finishes by returning its summary with status 200
\* whatever the individual syncs did, also when sync_index_prices raised
\* and BACKEND_API_URL is set.
C39_AlwaysReturns200 ==
    (ingest.pc = "done") => ingest.result = "200"

\* ------------------------------------------------ row_count and the table

\* A load or refresh of dataset k is in flight.
LoadInFlight(k) ==
    \E t \in TaskIds : tasks[t].key = k /\ tasks[t].pc \notin {"idle", "done"}

\* The number of rows of the raw table of k, 0 when there is no table.
RawRowCount(k) ==
    IF local_db.prices[k] = NoTable THEN 0 ELSE Cardinality(local_db.prices[k])

\* C32: whenever a dataset is Loaded and no load of it is in flight, the
\* row_count of its registry entry is the number of rows of its raw table,
\* under any interleaving of a lazy load and refreshes of the dataset.
C32_RowCountMatchesTable ==
    \A k \in MARKET_INDICES :
        (Status(k).loaded /\ ~LoadInFlight(k))
        => Status(k).row_count = RawRowCount(k)

\* ------------------------------------------------- multi-index responses

MultiNext ==
    \/ GetSectorComparisonTable
    \/ webhook_refresh_index("ftse100")
    \/ \E t \in TaskIds : TaskStep(t)

SpecMulti == Init /\ [][MultiNext]_vars

\* C33: a response of the multi-index handler that left a requested
\* dataset out because it was Unloaded or Loading is not returned from the
\* cache once that dataset is Loaded: a cached response served while a
\* requested dataset is Loaded holds rows of that dataset.
C33_NoPartialResponseAfterLoad ==
    (resp.name = "sector_table" /\ resp.cached)
    => \A i \in DOMAIN MultiIndexList :
          Status(MultiIndexList[i]).loaded
          => \E r \in resp.result : r.market_index = MultiIndexList[i]

\* ------------------------------------------------- per-symbol responses

\* Requests for the data of a symbol arrive while no load is in flight,
\* and so does the refresh of the dataset, once it is Loaded.
DataNext ==
    \/ \E symbol \in DataSymbols :
          /\ \A t \in TaskIds : tasks[t].pc \in {"idle", "done"}
          /\ GetData(symbol)
    \/ RefreshArrival("sp500") /\ webhook_refresh_index("sp500")
    \/ \E t \in TaskIds : TaskStep(t)

SpecData == Init /\ [][DataNext]_vars

C34_Step ==
    \A t \in TaskIds :
        (RefreshCompletes(t) /\ tasks[t].reload /\ tasks[t].rc > 0)
        => \A symbol \in DataSymbols :
              DataKey(symbol) \in DOMAIN API_CACHE'
              => API_CACHE'[DataKey(symbol)].data = {}

\* C34: when a refresh that has reloaded a dataset completes, the cache
\* holds no response computed from the rows the dataset had before the
\* refresh, the responses of the per-symbol endpoint included.
C34_RefreshLeavesNoStaleResponse == [][C34_Step]_vars

\* A step in which get_data is called for symbol while the cache holds an
\* entry for the request that is younger than the TTL.
DataCalledWithEntry(symbol) ==
    /\ resp'.name = "data" /\ resp'.key = symbol
    /\ DataKey(symbol) \in DOMAIN API_CACHE
    /\ now - API_CACHE[DataKey(symbol)].timestamp < CACHE_TTL

C36_Step ==
    \A symbol \in DataSymbols :
        DataCalledWithEntry(symbol)
        => /\ resp'.cached
           /\ resp'.result = API_CACHE[DataKey(symbol)].data

\* C36: a request whose result a handler has stored in the cache less than
\* the TTL ago is answered from the cache, the store not being queried,
\* also when the stored result is empty.
C36_StoredResultIsServed == [][C36_Step]_vars

\* PREWARM_STATUS[k] is ready with at least one period warmed.
PrewarmReady(k) ==
    /\ k \in DOMAIN PREWARM_STATUS
    /\ PREWARM_STATUS[k].ready
    /\ PREWARM_STATUS[k].periods > 0

\* The entries _prewarm_sector_caches stores for dataset k.
PrewarmedKeys(k) ==
    {SectorTableKey(k, PREWARM_PERIODS[i]) : i \in 1..Len(PREWARM_PERIODS)}

\* C35: while PREWARM_STATUS of a dataset is ready with periods > 0 and less
\* than CACHE_TTL has passed since the prewarm (here: since the start), the
\* cache holds the sector_table entries the prewarm stored, after a lazy
\* load and after a refresh alike.
C35_PrewarmedEntriesPresent ==
    \A k \in MARKET_INDICES :
        (PrewarmReady(k) /\ now < CACHE_TTL) => PrewarmedKeys(k) \subseteq DOMAIN API_CACHE

\* A step of a reload of the index-level prices that has loaded nothing:
\* the reload is in progress, has failed or has fetched no row.
ReloadWithoutRows(t) ==
    /\ tasks[t].kind = "index_prices"
    /\ tasks'[t] # tasks[t]
    /\ tasks[t].rc = 0 /\ tasks'[t].rc = 0

C38_Step ==
    INDEX_PRICES_LOADED =>
        /\ INDEX_PRICES_LOADED'
        /\ \A t \in TaskIds :
              ReloadWithoutRows(t) =>
                  /\ INDEX_PRICES_ROW_COUNT' = INDEX_PRICES_ROW_COUNT
                  /\ local_db'.index_prices = local_db.index_prices
                  /\ local_db'.latest_index_prices = local_db.latest_index_prices

\* C38: once the index-level prices have loaded, INDEX_PRICES_LOADED stays
\* true, and a later reload that is in progress, fails or fetches no row
\* leaves INDEX_PRICES_LOADED, INDEX_PRICES_ROW_COUNT and the tables the
\* index-prices endpoints read as they were.
C38_IndexPricesStayLoaded == [][C38_Step]_vars

\* The sections of db_rwlock that are active: the write sections of the
\* tasks and the read section of the request handler.
WriteHolders == {t \in TaskIds : HoldsWrite(t)}

ReadHolder == handler.pc = "query"

\* The threads that wait on db_rwlock: tasks before their write section,
\* the handler before its read section.
WriteWaiters == {t \in TaskIds : tasks[t].pc = "acq"}

ReadWaiter == handler.pc = "read_first"

\* A holder of db_rwlock can take its next step, which leaves the section.
HolderCanLeave ==
    \/ ReadHolder /\ ENABLED HandlerQuery
    \/ \E t \in WriteHolders : ENABLED TaskStep(t)

\* C37: db_rwlock never deadlocks.  No thread that waits for access holds
\* a section itself; _lock is locked only while a section is active, so
\* every section has released it on its normal and on its exceptional
\* exit; and whenever a thread waits, either _lock is free or a holder can
\* take the step that leaves its section.
C37_GuardNeverDeadlocks ==
    /\ WriteWaiters \cap WriteHolders = {}
    /\ ~(ReadWaiter /\ ReadHolder)
    /\ db_rwlock.locked => (ReadHolder \/ WriteHolders # {})
    /\ db_rwlock.readers_locked => ReadWaiter
    /\ (ReadWaiter \/ WriteWaiters # {}) => (~db_rwlock.locked \/ HolderCanLeave)

\* C37 witness: after a statement has raised, a task is inside its write
\* section while another task and the handler, which holds _readers_lock,
\* wait for _lock.
C37_Witness ==
    /\ faults > 0
    /\ WriteHolders # {}
    /\ WriteWaiters # {}
    /\ ReadWaiter /\ db_rwlock.readers_locked

====
